---- MODULE Spec2Model ----
(***************************************************************************)
(* A model of clipp (src/clipp.hpp): the argument descriptors, the         *)
(* registration done by ArgsBase and the matching loop of Parser::parse.   *)
(*                                                                         *)
(* A token (an element of argv) is a sequence of one-character strings, so *)
(* that the classification of a token, the lookup of a flag by name or by  *)
(* short option and the conversions are computed on the characters, as the *)
(* code computes them.                                                     *)
(*                                                                         *)
(* size_t counters are held as their signed residue: the comparisons of    *)
(* the code are equalities, which agree with arithmetic modulo 2^64 as     *)
(* long as the magnitudes are small, and a value v < 0 stands for the      *)
(* wrapped value 2^64 + v.                                                 *)
(***************************************************************************)
EXTENDS Integers, Sequences, FiniteSets, TLC

\* ----------------------------------------------------------------------
\* Bounds of the model
\* ----------------------------------------------------------------------

\* longest argv of a stream with flags
MaxArgs == 3

\* longest argv of a stream of the flag-free vocabulary
MaxPosArgs == 4

\* longest list of positional descriptors of the generic Args structs
MaxPos == 3

\* longest argv of a stream of flags that take values
MaxValueArgs == 4

\* longest argv for VecFlag, whose flag takes three values
MaxVecArgs == 5

\* longest argv of a stream in which a vector flag is given several times
MaxCollectArgs == 6

\* longest argv of a stream of groups separated by delimiters
MaxDelimArgs == 8

\* longest argv of a stream for the descriptors with choices
MaxChoiceArgs == 4

\* ----------------------------------------------------------------------
\* Characters and strings
\* ----------------------------------------------------------------------

Digits == {"0", "1", "2", "3", "4", "5", "6", "7", "8", "9"}

DigitChar == <<"0", "1", "2", "3", "4", "5", "6", "7", "8", "9">>

DigitVal(c) == CHOOSE d \in 0..9 : DigitChar[d + 1] = c

\* std::string_view::substr(pos, count) on a 1-based sequence: the
\* characters at the 0-based positions pos .. pos+count-1
substr(s, pos, count) == SubSeq(s, pos + 1, pos + count)

\* std::string_view::substr(pos): everything from the 0-based position pos
substrFrom(s, pos) == SubSeq(s, pos + 1, Len(s))

\* std::string_view::find(ch): the 0-based position of the first ch, or -1
\* for npos
find(s, ch) ==
    IF \E i \in 1..Len(s) : s[i] = ch
    THEN (CHOOSE i \in 1..Len(s) : s[i] = ch /\ \A j \in 1..(i - 1) : s[j] # ch) - 1
    ELSE -1

AllDigits(s) == \A i \in 1..Len(s) : s[i] \in Digits

\* the mantissa of the fixed format: digits with at most one '.', at least
\* one digit
IsFixed(s) ==
    LET dot == find(s, ".")
    IN  IF dot = -1
        THEN Len(s) >= 1 /\ AllDigits(s)
        ELSE /\ AllDigits(substr(s, 0, dot))
             /\ AllDigits(substrFrom(s, dot + 1))
             /\ Len(s) >= 2

\* mantissa, optionally followed by e, an optional sign and digits
IsGeneral(s) ==
    \/ IsFixed(s)
    \/ \E e \in 1..Len(s) :
          /\ s[e] \in {"e", "E"}
          /\ IsFixed(SubSeq(s, 1, e - 1))
          /\ LET x == SubSeq(s, e + 1, Len(s))
                 y == IF Len(x) >= 1 /\ x[1] \in {"+", "-"} THEN Tail(x) ELSE x
             IN  Len(y) >= 1 /\ AllDigits(y)

IsInfNan(s) ==
    s \in { <<"i", "n", "f">>, <<"n", "a", "n">>,
            <<"i", "n", "f", "i", "n", "i", "t", "y">> }

\* detail::isNumber: std::from_chars for double (chars_format::general)
\* succeeds and consumes the whole string.  The characters of the model are
\* lower case and the tokens are short, so the case-insensitive spellings
\* and the range error of from_chars do not arise.
isNumber(str) ==
    LET body == IF Len(str) >= 1 /\ str[1] = "-" THEN Tail(str) ELSE str
    IN  IsGeneral(body) \/ IsInfNan(body)

RECURSIVE DecimalValue(_)
DecimalValue(s) ==
    IF Len(s) = 0 THEN 0
    ELSE 10 * DecimalValue(SubSeq(s, 1, Len(s) - 1)) + DigitVal(s[Len(s)])

\* Value<T>::parse: [ok, val].  Value<std::string> copies the string;
\* Value<int64_t> is std::from_chars for an integer, which accepts an
\* optional '-' followed by digits and must consume the whole string (the
\* tokens of the model are too short to leave the range of int64_t).
ValueParse(type, str) ==
    IF type = "int64_t"
    THEN LET neg  == Len(str) >= 1 /\ str[1] = "-"
             body == IF neg THEN Tail(str) ELSE str
         IN  IF Len(body) >= 1 /\ AllDigits(body)
             THEN [ok |-> TRUE,
                   val |-> IF neg THEN 0 - DecimalValue(body) ELSE DecimalValue(body)]
             ELSE [ok |-> FALSE, val |-> 0]
    ELSE [ok |-> TRUE, val |-> str]

\* ----------------------------------------------------------------------
\* Argument descriptors (namespace detail)
\* ----------------------------------------------------------------------

\* char shortOpt = 0: the flag has no short option
NoShortOpt == ""

\* Value<T>::typeName
TypeNameOf(type) == IF type = "int64_t" THEN "integer" ELSE ""

\* the value of the variable a flag is bound to, as the Args struct
\* initialises it unless said otherwise: b for bool&, n for size_t&, v for
\* optional (empty or one element) and vector
InitFlagVal == [b |-> FALSE, n |-> 0, v |-> <<>>]

\* Flag<bool>: num_ = 0, collect_ = false
FlagBool(name, shortOpt) ==
    [name |-> name, shortOpt |-> shortOpt, kind |-> "bool", type |-> "string",
     typeName |-> "", num |-> 0, collect |-> FALSE, halt |-> FALSE,
     choices |-> <<>>, init |-> InitFlagVal]

\* Flag<size_t>: num_ = 0, collect_ = false
FlagCount(name, shortOpt) ==
    [name |-> name, shortOpt |-> shortOpt, kind |-> "count", type |-> "string",
     typeName |-> "", num |-> 0, collect |-> FALSE, halt |-> FALSE,
     choices |-> <<>>, init |-> InitFlagVal]

\* Flag<std::optional<T>>: num_ = 1
FlagOptional(type, name, shortOpt) ==
    [name |-> name, shortOpt |-> shortOpt, kind |-> "optional", type |-> type,
     typeName |-> TypeNameOf(type), num |-> 1, collect |-> FALSE,
     halt |-> FALSE, choices |-> <<>>, init |-> InitFlagVal]

\* Flag<std::vector<T>>: num_ = 1, collect_ = true
FlagVector(type, name, shortOpt) ==
    [name |-> name, shortOpt |-> shortOpt, kind |-> "vector", type |-> type,
     typeName |-> TypeNameOf(type), num |-> 1, collect |-> TRUE,
     halt |-> FALSE, choices |-> <<>>, init |-> InitFlagVal]

\* the constructor of a Flag keeps a reference to the variable: init is what
\* the Args struct initialised the variable with
initialised(flag, val) == [flag EXCEPT !.init = val]

\* Flag<std::vector<T>>::num
num(flag, n) == [flag EXCEPT !.num = n, !.collect = FALSE]

\* Flag<std::vector<T>>::collect
collect(flag, c) == [flag EXCEPT !.collect = c]

\* Positional<T>: a scalar, required unless marked optional
Positional(type, name) ==
    [name |-> name, kind |-> "scalar", type |-> type,
     typeName |-> TypeNameOf(type), optional |-> FALSE, many |-> FALSE,
     halt |-> FALSE, choices |-> <<>>]

\* Positional<std::optional<T>>: the constructor calls optional()
PositionalOptional(type, name) ==
    [name |-> name, kind |-> "optional", type |-> type,
     typeName |-> TypeNameOf(type), optional |-> TRUE, many |-> FALSE,
     halt |-> FALSE, choices |-> <<>>]

\* Positional<std::vector<T>>: many_ = true
PositionalVector(type, name) ==
    [name |-> name, kind |-> "vector", type |-> type,
     typeName |-> TypeNameOf(type), optional |-> FALSE, many |-> TRUE,
     halt |-> FALSE, choices |-> <<>>]

\* FlagBuilderMixin::halt, PositionalBuilderMixin::halt
halt(arg) == [arg EXCEPT !.halt = TRUE]

\* FlagBuilderMixin::choices, PositionalBuilderMixin::choices
choices(arg, c) == [arg EXCEPT !.choices = c]

\* PositionalBuilderMixin::optional
optional(arg) == [arg EXCEPT !.optional = TRUE]

\* the initial value of a variable bound to a scalar positional (the "def"
\* of OptParam in test.cpp); no token of the model converts to it
DefaultValue == <<"d", "e", "f">>

\* the value of the variable a positional is bound to, as a sequence: one
\* element for a scalar, none or one for an optional, all for a vector
InitPosVal(pos) == IF pos.kind = "scalar" THEN <<DefaultValue>> ELSE <<>>

\* ----------------------------------------------------------------------
\* ArgsBase
\* ----------------------------------------------------------------------

\* ArgsBase::flag(std::string_view name): the position in flags_ of the
\* first flag of that name, 0 for nullptr
flagByName(flags, name) ==
    IF \E i \in 1..Len(flags) : flags[i].name = name
    THEN CHOOSE i \in 1..Len(flags) :
            /\ flags[i].name = name
            /\ \A j \in 1..(i - 1) : flags[j].name # name
    ELSE 0

\* ArgsBase::flag(char shortOpt): the position in flags_ of the first flag
\* with that short option, 0 for nullptr
flagByShortOpt(flags, c) ==
    IF \E i \in 1..Len(flags) : flags[i].shortOpt = c
    THEN CHOOSE i \in 1..Len(flags) :
            /\ flags[i].shortOpt = c
            /\ \A j \in 1..(i - 1) : flags[j].shortOpt # c
    ELSE 0

\* the flag registered by parse when addHelp_ is set
HelpFlag == halt(FlagBool(<<"h", "e", "l", "p">>, "h"))

\* the flag registered by parse when version_ is not empty
VersionFlag == halt(FlagBool(<<"v", "e", "r", "s", "i", "o", "n">>, NoShortOpt))

\* the flags_ of the Args object after parse registered the built-in flags
\* and called args.args()
RegisteredFlags(P, T) ==
    (IF P.addHelp_ THEN <<HelpFlag>> ELSE <<>>)
    \o (IF P.version_ # <<>> THEN <<VersionFlag>> ELSE <<>>)
    \o T.flags

\* a test of the names that looks at the flags only
nameUnique_flagsOnly(name, flags, positionals) ==
    \A i \in 1..Len(flags) : flags[i].name # name

\* ArgsBase::nameUnique: no flag and no positional registered so far has
\* the name
nameUnique(name, flags, positionals) ==
    /\ \A i \in 1..Len(flags) : flags[i].name # name
    /\ \A i \in 1..Len(positionals) : positionals[i].name # name

\* ArgsBase::shortOptUnique: the flag has no short option or no flag
\* registered so far has it
shortOptUnique(shortOpt, flags) ==
    \/ shortOpt = NoShortOpt
    \/ \A i \in 1..Len(flags) : flags[i].shortOpt # shortOpt

\* the conditions of the assertions of ArgsBase::flag and
\* ArgsBase::positional hold in every call that parse and Args::args()
\* make: each call is tested against what was registered before it (the
\* flags are taken to be registered before the positionals; the tests are
\* symmetric, so the order makes no difference to whether all of them hold)
registrationAsserts(P, T) ==
    LET fl == RegisteredFlags(P, T)
    IN  /\ \A i \in 1..Len(fl) :
              /\ fl[i].name # <<>>
              /\ nameUnique(fl[i].name, SubSeq(fl, 1, i - 1), <<>>)
              /\ shortOptUnique(fl[i].shortOpt, SubSeq(fl, 1, i - 1))
        /\ \A j \in 1..Len(T.positionals) :
              /\ T.positionals[j].name # <<>>
              /\ nameUnique(T.positionals[j].name, fl,
                            SubSeq(T.positionals, 1, j - 1))

\* ----------------------------------------------------------------------
\* Parser::parse: the part before the loop
\* ----------------------------------------------------------------------

hasDigitShortOptOf(flags) ==
    \E i \in 1..Len(flags) : flags[i].shortOpt \in Digits

\* a classification that takes every token with a leading '-' for a flag
isFlag_noNumberTest(hasDigit, arg) ==
    IF arg = <<"-", "-">> \/ Len(arg) < 2 \/ arg[1] # "-"
    THEN FALSE
    ELSE TRUE

\* the lambda isFlag
isFlag(hasDigit, arg) ==
    IF arg = <<"-", "-">> \/ Len(arg) < 2 \/ arg[1] # "-"
    THEN FALSE
    ELSE IF ~hasDigit /\ isNumber(arg)
         THEN FALSE
         ELSE TRUE

\* the initial positionalsLeft: the arguments that are not flags
CountPositionalsLeft(hasDigit, av) ==
    Cardinality({i \in 1..Len(av) : ~isFlag(hasDigit, av[i])})

\* the initial positionalsRequired: the positionals that are not optional
CountPositionalsRequired(positionals) ==
    Cardinality({i \in 1..Len(positionals) : ~positionals[i].optional})

\* the lambda halt: remaining_ becomes argv[argIdx..], argIdx 0-based
haltRemaining(av, idx) == SubSeq(av, idx + 1, Len(av))

\* ----------------------------------------------------------------------
\* Output and exit
\* ----------------------------------------------------------------------

\* what parse did to its collaborators, in order: a write to the error
\* sink, a write to the normal sink, a call of exit_.  An error message is
\* its fixed text (kind), the quoted token or name (arg), the "option 'x'"
\* or "argument 'x'" it is about (name), the choices and the type name.
ErrEvent(kind, arg, name, choiceList, typeName) ==
    [sink |-> "err", kind |-> kind, arg |-> arg, name |-> name,
     choices |-> choiceList, typeName |-> typeName, status |-> 0]

UsageEvent ==
    [sink |-> "err", kind |-> "Usage: ", arg |-> <<>>, name |-> <<>>,
     choices |-> <<>>, typeName |-> "", status |-> 0]

OutEvent(kind, arg) ==
    [sink |-> "out", kind |-> kind, arg |-> arg, name |-> <<>>,
     choices |-> <<>>, typeName |-> "", status |-> 0]

ExitEvent(status) ==
    [sink |-> "exit", kind |-> "", arg |-> <<>>, name |-> <<>>,
     choices |-> <<>>, typeName |-> "", status |-> status]

\* an error that calls exit_(1) whatever exitOnError_ is
error_alwaysExit(P, m, kind, arg, name, choiceList, typeName) ==
    [m EXCEPT
       !.io = m.io \o <<ErrEvent(kind, arg, name, choiceList, typeName),
                        UsageEvent, ExitEvent(1)>>,
       !.pc = IF ~P.exitReturns THEN "exited" ELSE "returned",
       !.result = IF ~P.exitReturns THEN "none" ELSE "nullopt"]

\* Parser::error followed by the caller's return std::nullopt: the message,
\* the usage line (ArgsBase::usage is never empty: it starts with the
\* program name), exit_(1) if exitOnError_.  When exit_ does not return (as
\* std::exit) the process ends inside parse and parse returns nothing.
error(P, m, kind, arg, name, choiceList, typeName) ==
    [m EXCEPT
       !.io = m.io \o <<ErrEvent(kind, arg, name, choiceList, typeName), UsageEvent>>
                   \o (IF P.exitOnError_ THEN <<ExitEvent(1)>> ELSE <<>>),
       !.pc = IF P.exitOnError_ /\ ~P.exitReturns THEN "exited" ELSE "returned",
       !.result = IF P.exitOnError_ /\ ~P.exitReturns THEN "none" ELSE "nullopt"]

\* exit_(0) followed by return args, after the help text or the version
exitZero(P, m) ==
    [m EXCEPT
       !.io = m.io \o <<ExitEvent(0)>>,
       !.pc = IF P.exitReturns THEN "returned" ELSE "exited",
       !.result = IF P.exitReturns THEN "value" ELSE "none"]

\* ----------------------------------------------------------------------
\* Descriptor::parse and Parser::parseArg
\* ----------------------------------------------------------------------

\* a Flag<size_t> that notes that the flag was given instead of counting
FlagStore_noCount(flag, old, val) ==
    CASE flag.kind = "bool"     -> [old EXCEPT !.b = TRUE]
      [] flag.kind = "count"    -> [old EXCEPT !.n = 1]
      [] flag.kind = "optional" -> [old EXCEPT !.v = <<val>>]
      [] flag.kind = "vector"   -> [old EXCEPT !.v = Append(old.v, val)]

\* Flag<T>::parse with a converted value: Flag<bool> sets, Flag<size_t>
\* counts, Flag<optional> overwrites, Flag<vector> appends
FlagStore(flag, old, val) ==
    CASE flag.kind = "bool"     -> [old EXCEPT !.b = TRUE]
      [] flag.kind = "count"    -> [old EXCEPT !.n = old.n + 1]
      [] flag.kind = "optional" -> [old EXCEPT !.v = <<val>>]
      [] flag.kind = "vector"   -> [old EXCEPT !.v = Append(old.v, val)]

\* a reset that clears nothing
FlagReset_keep(flag, old) == old

\* FlagBase::reset does nothing, Flag<vector>::reset clears the vector
FlagReset(flag, old) ==
    IF flag.kind = "vector" THEN [old EXCEPT !.v = <<>>] ELSE old

\* Positional<T>::parse with a converted value: a vector appends, the
\* others overwrite
PositionalStore(pos, old, val) ==
    IF pos.kind = "vector" THEN Append(old, val) ELSE <<val>>

\* a choice check that knows the first choice only
InChoices_firstOnly(choiceList, value) == choiceList[1] = value

\* the choice check of parseArg
InChoices(choiceList, value) ==
    \E i \in 1..Len(choiceList) : choiceList[i] = value

\* a parseArg that converts the value before it looks at the choices
parseFlagArg_convertFirst(c, m, f, optName, value) ==
    LET flag == c.flags_[f]
        res  == ValueParse(flag.type, value)
    IN  IF ~res.ok
        THEN error(c.parser, m, "Invalid value", value, optName, <<>>,
                   flag.typeName)
        ELSE IF Len(flag.choices) > 0 /\ ~InChoices(flag.choices, value)
        THEN error(c.parser, m, "Invalid value, possible values", value,
                   optName, flag.choices, "")
        ELSE [m EXCEPT !.flagVal[f] = FlagStore(flag, m.flagVal[f], res.val)]

\* Parser::parseArg for a value of the flag f (a position in flags_)
parseFlagArg(c, m, f, optName, value) ==
    LET flag == c.flags_[f]
        res  == ValueParse(flag.type, value)
    IN  IF Len(flag.choices) > 0 /\ ~InChoices(flag.choices, value)
        THEN error(c.parser, m, "Invalid value, possible values", value,
                   optName, flag.choices, "")
        ELSE IF ~res.ok
        THEN error(c.parser, m, "Invalid value", value, optName, <<>>,
                   flag.typeName)
        ELSE [m EXCEPT !.flagVal[f] = FlagStore(flag, m.flagVal[f], res.val)]

\* Parser::parseArg for a value of the positional p (a position in
\* positionals_)
parsePositionalArg(c, m, p, value) ==
    LET pos == c.positionals_[p]
        res == ValueParse(pos.type, value)
    IN  IF Len(pos.choices) > 0 /\ ~InChoices(pos.choices, value)
        THEN error(c.parser, m, "Invalid value, possible values", value,
                   pos.name, pos.choices, "")
        ELSE IF ~res.ok
        THEN error(c.parser, m, "Invalid value", value, pos.name, <<>>,
                   pos.typeName)
        ELSE [m EXCEPT !.posVal[p] = PositionalStore(pos, m.posVal[p], res.val),
                       !.size_[p] = m.size_[p] + 1]

\* flag->parse("") of a flag without arguments
parseEmpty(c, m, f) ==
    [m EXCEPT !.flagVal[f] = FlagStore(c.flags_[f], m.flagVal[f], <<>>)]

\* halted = halt(args, argv, idx)
doHalt(c, m, idx) ==
    [m EXCEPT !.halted = TRUE, !.remaining_ = haltRemaining(c.argv, idx)]

\* ----------------------------------------------------------------------
\* Parser::parse: the body of the loop
\* ----------------------------------------------------------------------

\* argv[argIdx], argIdx 0-based
argAt(c, idx) == c.argv[idx + 1]

\* what the branches that resolve a flag hand to the common part: the
\* state, which has left the loop if an error was reported, the flag (a
\* position in flags_), the values taken from the token itself and optName
Resolved(m, f, values, optName) ==
    [m |-> m, flag |-> f, values |-> values, optName |-> optName]

\* --flag=value without the test of the number of arguments
resolveLongEq_anyArity(c, m, arg) ==
    LET eq   == find(arg, "=")
        name == substr(arg, 0, eq)
        f    == flagByName(c.flags_, substrFrom(name, 2))
    IN  IF f = 0
        THEN Resolved(error(c.parser, m, "Invalid option", name, <<>>, <<>>, ""),
                      0, <<>>, name)
        ELSE Resolved(m, f, <<substrFrom(arg, eq + 1)>>, name)

\* --flag=value
resolveLongEq(c, m, arg) ==
    LET eq   == find(arg, "=")
        name == substr(arg, 0, eq)
        f    == flagByName(c.flags_, substrFrom(name, 2))
    IN  IF f = 0
        THEN Resolved(error(c.parser, m, "Invalid option", name, <<>>, <<>>, ""),
                      0, <<>>, name)
        ELSE IF c.flags_[f].num # 1
        THEN Resolved(error(c.parser, m, "'='-syntax can not be used", name,
                            <<>>, <<>>, ""), f, <<>>, name)
        ELSE Resolved(m, f, <<substrFrom(arg, eq + 1)>>, name)

\* --flag
resolveLong(c, m, arg) ==
    LET f == flagByName(c.flags_, substrFrom(arg, 2))
    IN  IF f = 0
        THEN Resolved(error(c.parser, m, "Invalid option", arg, <<>>, <<>>, ""),
                      0, <<>>, arg)
        ELSE Resolved(m, f, <<>>, arg)

\* a loop that takes every registered short option of a stack for a flag
\* without arguments
RECURSIVE clusterLoop_noArity(_, _, _, _)
clusterLoop_noArity(c, m, arg, k) ==
    IF k > Len(arg) - 1
    THEN m
    ELSE LET f == flagByShortOpt(c.flags_, arg[k])
         IN  IF f = 0
             THEN error(c.parser, m, "Invalid option", <<arg[k]>>, <<>>, <<>>, "")
             ELSE clusterLoop_noArity(c, parseEmpty(c, m, f), arg, k + 1)

\* a loop that handles the first short option of a stack only
clusterLoop_firstOnly(c, m, arg, k) ==
    IF k > Len(arg) - 1
    THEN m
    ELSE LET f == flagByShortOpt(c.flags_, arg[k])
         IN  IF f = 0 THEN m ELSE parseEmpty(c, m, f)

\* the loop over all short options of a stack except the last: k is the
\* 1-based position in arg of the next character, from 2 to Len(arg) - 1
RECURSIVE clusterLoop(_, _, _, _)
clusterLoop(c, m, arg, k) ==
    IF k > Len(arg) - 1
    THEN m
    ELSE LET f == flagByShortOpt(c.flags_, arg[k])
         IN  IF f = 0
             THEN error(c.parser, m, "Invalid option", <<arg[k]>>, <<>>, <<>>, "")
             ELSE IF c.flags_[f].num # 0
             THEN error(c.parser, m, "Option requires argument(s)", <<arg[k]>>,
                        <<>>, <<>>, "")
             ELSE LET m1 == parseEmpty(c, m, f)
                      m2 == IF c.flags_[f].halt
                            THEN doHalt(c, m1, m.argIdx + 1)
                            ELSE m1
                  IN  clusterLoop(c, m2, arg, k + 1)

\* a short form without -fVALUE: what follows the first short option is
\* read as further short options
resolveShort_noGlue(c, m, arg) ==
    LET first == flagByShortOpt(c.flags_, arg[2])
    IN  IF first = 0
        THEN Resolved(error(c.parser, m, "Invalid option", <<arg[2]>>, <<>>,
                            <<>>, ""), 0, <<>>, <<arg[2]>>)
        ELSE LET m1      == clusterLoop(c, m, arg, 2)
                 lastOpt == arg[Len(arg)]
                 f       == flagByShortOpt(c.flags_, lastOpt)
             IN  IF m1.pc # "loop"
                 THEN Resolved(m1, 0, <<>>, <<lastOpt>>)
                 ELSE IF f = 0
                 THEN Resolved(error(c.parser, m1, "Invalid option", <<lastOpt>>,
                                     <<>>, <<>>, ""), 0, <<>>, <<lastOpt>>)
                 ELSE Resolved(m1, f, <<>>, <<lastOpt>>)

\* -f, -fVALUE or a stack of short options
resolveShort(c, m, arg) ==
    LET first == flagByShortOpt(c.flags_, arg[2])
    IN  IF first = 0
        THEN Resolved(error(c.parser, m, "Invalid option", <<arg[2]>>, <<>>,
                            <<>>, ""), 0, <<>>, <<arg[2]>>)
        ELSE IF c.flags_[first].num = 1 /\ Len(arg) > 2
        THEN Resolved(m, first, <<substrFrom(arg, 2)>>, <<arg[2]>>)
        ELSE LET m1      == clusterLoop(c, m, arg, 2)
                 lastOpt == arg[Len(arg)]
                 f       == flagByShortOpt(c.flags_, lastOpt)
             IN  IF m1.pc # "loop"
                 THEN Resolved(m1, 0, <<>>, <<lastOpt>>)
                 ELSE IF f = 0
                 THEN Resolved(error(c.parser, m1, "Invalid option", <<lastOpt>>,
                                     <<>>, <<>>, ""), 0, <<>>, <<lastOpt>>)
                 ELSE Resolved(m1, f, <<>>, <<lastOpt>>)

\* values taken from the following arguments whatever they look like
followingValues_pastFlags(c, idx, n) ==
    LET last == IF Len(c.argv) < idx + 1 + n THEN Len(c.argv) ELSE idx + 1 + n
    IN  SubSeq(c.argv, idx + 2, last)

\* the values a flag takes from the following arguments: argv[argIdx + 1],
\* ... up to num of them, stopping at the end of argv and before the first
\* argument that isFlag
followingValues(c, idx, n) ==
    LET last  == IF Len(c.argv) < idx + 1 + n THEN Len(c.argv) ELSE idx + 1 + n
        stop  == {i \in (idx + 1)..(last - 1) :
                     isFlag(c.hasDigitShortOpt, argAt(c, i))}
        upTo  == IF stop = {} THEN last
                 ELSE CHOOSE i \in stop : \A j \in stop : i <= j
    IN  SubSeq(c.argv, idx + 2, upTo)

\* for (const auto val : values) parseArg(...), returning at the first
\* value that is not accepted
RECURSIVE parseValues(_, _, _, _, _)
parseValues(c, m, f, optName, values) ==
    IF Len(values) = 0 \/ m.pc # "loop"
    THEN m
    ELSE parseValues(c, parseFlagArg(c, m, f, optName, Head(values)), f,
                     optName, Tail(values))

\* the common part of the flag branch without the test of the number of
\* values
applyFlag_noArity(c, m, f, given, optName) ==
    LET flag == c.flags_[f]
    IN  IF flag.num = 0
        THEN LET m1 == parseEmpty(c, m, f)
             IN  IF flag.halt THEN doHalt(c, m1, m1.argIdx + 1) ELSE m1
        ELSE LET values == IF Len(given) = 0
                           THEN followingValues(c, m.argIdx, flag.num)
                           ELSE given
                 m1 == IF Len(given) = 0
                       THEN [m EXCEPT !.argIdx = m.argIdx + Len(values)]
                       ELSE m
                 m2 == IF ~flag.collect
                       THEN [m1 EXCEPT !.flagVal[f] =
                                         FlagReset(flag, m1.flagVal[f])]
                       ELSE m1
                 m3 == parseValues(c, m2, f, optName, values)
             IN  IF m3.pc # "loop" THEN m3
                 ELSE IF flag.halt THEN doHalt(c, m3, m3.argIdx + 1)
                 ELSE m3

\* the common part of the flag branch, from assert(flag) to the halt
applyFlag(c, m, f, given, optName) ==
    LET flag == c.flags_[f]
    IN  IF flag.num = 0
        THEN LET m1 == parseEmpty(c, m, f)
             IN  IF flag.halt THEN doHalt(c, m1, m1.argIdx + 1) ELSE m1
        ELSE LET values == IF Len(given) = 0
                           THEN followingValues(c, m.argIdx, flag.num)
                           ELSE given
                 m1 == IF Len(given) = 0
                       THEN [m EXCEPT !.argIdx = m.argIdx + Len(values)]
                       ELSE m
             IN  IF Len(values) < flag.num
                 THEN error(c.parser, m1, "Option requires argument(s)", optName,
                            <<>>, <<>>, "")
                 ELSE LET m2 == IF ~flag.collect
                                THEN [m1 EXCEPT !.flagVal[f] =
                                                  FlagReset(flag, m1.flagVal[f])]
                                ELSE m1
                          m3 == parseValues(c, m2, f, optName, values)
                      IN  IF m3.pc # "loop" THEN m3
                          ELSE IF flag.halt THEN doHalt(c, m3, m3.argIdx + 1)
                          ELSE m3

\* an iteration that does not move on to the next argument
endOfIteration_stay(m) == m

\* the end of an iteration: break if halted, else ++argIdx
endOfIteration(m) ==
    IF m.pc # "loop" \/ m.halted THEN m ELSE [m EXCEPT !.argIdx = m.argIdx + 1]

\* arg == "--"
delimiterBody(c, m) ==
    LET m1 == IF m.afterPosDelim
              THEN [m EXCEPT !.positionalIdx = m.positionalIdx + 1]
              ELSE m
    IN  [m1 EXCEPT !.afterPosDelim = TRUE, !.argIdx = m.argIdx + 1]

\* !afterPosDelim && isFlag(arg)
flagBody(c, m) ==
    LET arg == argAt(c, m.argIdx)
        r   == IF arg[2] = "-"
               THEN IF find(arg, "=") # -1
                    THEN resolveLongEq(c, m, arg)
                    ELSE resolveLong(c, m, arg)
               ELSE resolveShort(c, m, arg)
    IN  IF r.m.pc # "loop"
        THEN r.m
        ELSE endOfIteration(applyFlag(c, r.m, r.flag, r.values, r.optName))

\* a greedy matching: a vector never gives way to the positionals after it
movesToNext_greedy(pos, m) == ~pos.many

\* !arg.many() || positionalsLeft == positionalsRequired: the positional
\* takes no further argument
movesToNext(pos, m) ==
    ~pos.many \/ m.positionalsLeft = m.positionalsRequired

\* positionalIdx < args.positionals_.size()
positionalBody(c, m) ==
    LET p   == m.positionalIdx + 1
        pos == c.positionals_[p]
        m1  == parsePositionalArg(c, m, p, argAt(c, m.argIdx))
        m2  == IF pos.halt
               THEN doHalt(c, m1, m1.argIdx + 1)
               ELSE IF movesToNext(pos, m1)
               THEN [m1 EXCEPT !.positionalIdx = m1.positionalIdx + 1,
                               !.positionalsRequired = m1.positionalsRequired - 1]
               ELSE m1
    IN  IF m1.pc # "loop"
        THEN m1
        ELSE endOfIteration([m2 EXCEPT !.positionalsLeft = m2.positionalsLeft - 1])

\* an argument no positional is left for is dropped with all behind it
superfluousBody_drop(c, m) == doHalt(c, m, m.argIdx)

\* errorOnExtraArgs_
superfluousBody(c, m) ==
    error(c.parser, m, "Superfluous argument", argAt(c, m.argIdx), <<>>, <<>>, "")

\* a halt that takes the argument at hand for consumed
extraArgsBody_skip(c, m) == doHalt(c, m, m.argIdx + 1)

\* the last branch: halted = halt(args, argv, argIdx)
extraArgsBody(c, m) == doHalt(c, m, m.argIdx)

\* ----------------------------------------------------------------------
\* Parser::parse: after the loop
\* ----------------------------------------------------------------------

\* the local bool help, bound to the built-in flag registered first
helpOf(c, m) == c.parser.addHelp_ /\ m.flagVal[1].b

\* the local bool versionFlag, bound to the built-in flag registered next
versionFlagOf(c, m) ==
    /\ c.parser.version_ # <<>>
    /\ m.flagVal[IF c.parser.addHelp_ THEN 2 ELSE 1].b

\* a check that takes every positional for required
missingPositionals_allRequired(c, m) ==
    {p \in 1..Len(c.positionals_) : m.size_[p] = 0}

\* the positionals that are not optional and have size() == 0
missingPositionals(c, m) ==
    {p \in 1..Len(c.positionals_) :
        ~c.positionals_[p].optional /\ m.size_[p] = 0}

\* output_->out(args.help(programName_)); exit_(0); return args
helpBody(c, m) ==
    exitZero(c.parser, [m EXCEPT !.io = m.io \o <<OutEvent("help", <<>>)>>])

\* output_->out(version_); output_->out("\n"); exit_(0); return args
versionBody(c, m) ==
    exitZero(c.parser,
             [m EXCEPT !.io = m.io \o <<OutEvent("version", c.parser.version_),
                                        OutEvent("\n", <<>>)>>])

\* return args
returnBody(m) == [m EXCEPT !.pc = "returned", !.result = "value"]

\* error(args, "Missing argument '", arg->name(), "'") for the first
\* positional that is missing
missingBody(c, m) ==
    LET miss  == missingPositionals(c, m)
        first == CHOOSE p \in miss : \A q \in miss : p <= q
    IN  error(c.parser, m, "Missing argument", c.positionals_[first].name,
              <<>>, <<>>, "")

\* ----------------------------------------------------------------------
\* The state
\* ----------------------------------------------------------------------

VARIABLES
    parser,              \* Parser: addHelp_, version_, exitOnError_,
                         \* errorOnExtraArgs_ and whether exit_ returns
    argsType,            \* the Args struct: what Args::args() registers
    argv,                \* the argument of parse
    flags_,              \* ArgsBase::flags_
    positionals_,        \* ArgsBase::positionals_
    remaining_,          \* ArgsBase::remaining_
    flagVal,             \* the variables the flags are bound to
    posVal,              \* the variables the positionals are bound to
    size_,               \* PositionalBase::size_ of every positional
    hasDigitShortOpt,    \* the locals of parse
    positionalsLeft,
    positionalsRequired,
    afterPosDelim,
    halted,
    positionalIdx,
    argIdx,
    io,                  \* the writes to output_ and the calls of exit_
    pc,                  \* "init", "loop", "returned", "exited" or, when
                         \* an assertion failed, "aborted"
    result,              \* "none", "value" or "nullopt"
    NDEBUG               \* the build: NDEBUG is defined, assert expands to
                         \* nothing

vars == <<parser, argsType, argv, flags_, positionals_, remaining_, flagVal,
          posVal, size_, hasDigitShortOpt, positionalsLeft,
          positionalsRequired, afterPosDelim, halted, positionalIdx, argIdx,
          io, pc, result, NDEBUG>>

\* what stays as it is while parse runs
Ctx ==
    [parser |-> parser, flags_ |-> flags_, positionals_ |-> positionals_,
     argv |-> argv, hasDigitShortOpt |-> hasDigitShortOpt]

\* what parse changes
Cur ==
    [remaining_ |-> remaining_, flagVal |-> flagVal, posVal |-> posVal,
     size_ |-> size_, positionalsLeft |-> positionalsLeft,
     positionalsRequired |-> positionalsRequired,
     afterPosDelim |-> afterPosDelim, halted |-> halted,
     positionalIdx |-> positionalIdx, argIdx |-> argIdx, io |-> io,
     pc |-> pc, result |-> result]

Becomes(m) ==
    /\ remaining_' = m.remaining_
    /\ flagVal' = m.flagVal
    /\ posVal' = m.posVal
    /\ size_' = m.size_
    /\ positionalsLeft' = m.positionalsLeft
    /\ positionalsRequired' = m.positionalsRequired
    /\ afterPosDelim' = m.afterPosDelim
    /\ halted' = m.halted
    /\ positionalIdx' = m.positionalIdx
    /\ argIdx' = m.argIdx
    /\ io' = m.io
    /\ pc' = m.pc
    /\ result' = m.result
    /\ UNCHANGED <<parser, argsType, argv, flags_, positionals_,
                   hasDigitShortOpt, NDEBUG>>

\* the context of a parse of av by the parser P for the Args struct T
CtxOf(P, T, av) ==
    LET fl == RegisteredFlags(P, T)
    IN  [parser |-> P, flags_ |-> fl, positionals_ |-> T.positionals,
         argv |-> av, hasDigitShortOpt |-> hasDigitShortOptOf(fl)]

\* the state of parse when it enters the loop
EnterLoop(c) ==
    [remaining_ |-> <<>>,
     flagVal |-> [i \in 1..Len(c.flags_) |-> c.flags_[i].init],
     posVal |-> [i \in 1..Len(c.positionals_) |-> InitPosVal(c.positionals_[i])],
     size_ |-> [i \in 1..Len(c.positionals_) |-> 0],
     positionalsLeft |-> CountPositionalsLeft(c.hasDigitShortOpt, c.argv),
     positionalsRequired |-> CountPositionalsRequired(c.positionals_),
     afterPosDelim |-> FALSE, halted |-> FALSE, positionalIdx |-> 0,
     argIdx |-> 0, io |-> <<>>, pc |-> "loop", result |-> "none"]

\* ----------------------------------------------------------------------
\* Which branch parse takes
\* ----------------------------------------------------------------------

InLoop(c, m) == m.pc = "loop" /\ ~m.halted /\ m.argIdx < Len(c.argv)

AfterLoop(c, m) == m.pc = "loop" /\ (m.halted \/ m.argIdx >= Len(c.argv))

AtDelimiter(c, m) == InLoop(c, m) /\ argAt(c, m.argIdx) = <<"-", "-">>

\* a flag branch that is taken behind the delimiter too
AtFlag_behindDelimiter(c, m) ==
    /\ InLoop(c, m)
    /\ argAt(c, m.argIdx) # <<"-", "-">>
    /\ isFlag(c.hasDigitShortOpt, argAt(c, m.argIdx))

AtFlag(c, m) ==
    /\ InLoop(c, m)
    /\ argAt(c, m.argIdx) # <<"-", "-">>
    /\ ~m.afterPosDelim
    /\ isFlag(c.hasDigitShortOpt, argAt(c, m.argIdx))

AtPositionalForm(c, m) ==
    InLoop(c, m) /\ ~AtDelimiter(c, m) /\ ~AtFlag(c, m)

AtPositional(c, m) ==
    AtPositionalForm(c, m) /\ m.positionalIdx < Len(c.positionals_)

AtSuperfluous(c, m) ==
    /\ AtPositionalForm(c, m)
    /\ ~(m.positionalIdx < Len(c.positionals_))
    /\ c.parser.errorOnExtraArgs_

AtExtraArgs(c, m) ==
    /\ AtPositionalForm(c, m)
    /\ ~(m.positionalIdx < Len(c.positionals_))
    /\ ~c.parser.errorOnExtraArgs_

AtHelp(c, m) == AfterLoop(c, m) /\ helpOf(c, m)

AtVersion(c, m) == AfterLoop(c, m) /\ ~helpOf(c, m) /\ versionFlagOf(c, m)

AtHalted(c, m) ==
    AfterLoop(c, m) /\ ~helpOf(c, m) /\ ~versionFlagOf(c, m) /\ m.halted

AtCheck(c, m) ==
    AfterLoop(c, m) /\ ~helpOf(c, m) /\ ~versionFlagOf(c, m) /\ ~m.halted

AtMissing(c, m) == AtCheck(c, m) /\ missingPositionals(c, m) # {}

AtReturn(c, m) == AtCheck(c, m) /\ missingPositionals(c, m) = {}

\* one step of parse from the state m
Step(c, m) ==
    CASE AtDelimiter(c, m)   -> delimiterBody(c, m)
      [] AtFlag(c, m)        -> flagBody(c, m)
      [] AtPositional(c, m)  -> positionalBody(c, m)
      [] AtSuperfluous(c, m) -> superfluousBody(c, m)
      [] AtExtraArgs(c, m)   -> extraArgsBody(c, m)
      [] AtHelp(c, m)        -> helpBody(c, m)
      [] AtVersion(c, m)     -> versionBody(c, m)
      [] AtHalted(c, m)      -> returnBody(m)
      [] AtMissing(c, m)     -> missingBody(c, m)
      [] AtReturn(c, m)      -> returnBody(m)

\* the state in which parse ends: it returned, or exit_ ended the process
RECURSIVE Run(_, _)
Run(c, m) == IF m.pc # "loop" THEN m ELSE Run(c, Step(c, m))

\* parse<T>(av) of the parser P, from the call to its end
Parse(P, T, av) == LET c == CtxOf(P, T, av) IN Run(c, EnterLoop(c))

\* ----------------------------------------------------------------------
\* The parsers, Args structs and argument vectors of the model
\* ----------------------------------------------------------------------

SeqsUpTo(S, n) == UNION {[1..k -> S] : k \in 0..n}

\* the version string of the parsers of test.cpp
TestVersion == <<"0", ".", "1">>

\* Parser's constructor and setters: addHelp_, exitOnError_ and
\* errorOnExtraArgs_ are true unless set, version_ is empty unless set,
\* exit_ is std::exit (which does not return) unless replaced
Parsers(addHelps, versions, exitOnErrors, errorOnExtras, exitReturn) ==
    [addHelp_ : addHelps, version_ : versions, exitOnError_ : exitOnErrors,
     errorOnExtraArgs_ : errorOnExtras, exitReturns : exitReturn]

\* the name of the i-th positional of a generic Args struct
PosName(i) == <<"p", DigitChar[i]>>

\* the positionals an Args struct can declare for a std::string or a
\* std::vector<std::string> member: scalar or vector, required or optional
PosVariants(i) ==
    { Positional("string", PosName(i)),
      optional(Positional("string", PosName(i))),
      PositionalVector("string", PosName(i)),
      optional(PositionalVector("string", PosName(i))) }

\* the Args structs that declare no flag and up to MaxPos positionals
PositionalArgs ==
    UNION { { [flags |-> <<>>, positionals |-> ps] :
                ps \in { q \in [1..k -> UNION {PosVariants(i) : i \in 1..k}] :
                            \A i \in 1..k : q[i] \in PosVariants(i) } } :
            k \in 0..MaxPos }

OptFlag == FlagOptional("string", <<"o", "p", "t">>, "o")

FooFlag == FlagBool(<<"f", "o", "o">>, "f")

VerboseFlag == FlagCount(<<"v", "e", "r", "b", "o", "s", "e">>, "v")

\* a flag of the user that halts, as --help and --version do
StopFlag == halt(FlagBool(<<"s", "t", "o", "p">>, "s"))

\* CpStyleArgs of test.cpp with the opt flag of Args
CpStyleArgs ==
    [flags |-> <<OptFlag>>,
     positionals |-> <<PositionalVector("string", <<"s", "r", "c">>),
                       Positional("string", <<"d", "s", "t">>)>>]

\* Args of test.cpp (foo, opt, verbose and pos) with a halting flag
TestArgs ==
    [flags |-> <<FooFlag, OptFlag, VerboseFlag, StopFlag>>,
     positionals |-> <<Positional("string", <<"p", "o", "s">>)>>]

\* ParentArgs of examples/subcommands.cpp: the positional halts
ParentArgs ==
    [flags |-> <<FooFlag, OptFlag, VerboseFlag, StopFlag>>,
     positionals |-> <<halt(Positional("string", <<"c", "m", "d">>))>>]

NumberFlag == FlagOptional("int64_t", <<"n", "u", "m", "b", "e", "r">>, "n")

\* a flag that takes two values, as flag(vector<T>&).num(size_t) of README.md
PairFlag == num(FlagVector("int64_t", <<"p", "a", "i", "r">>, "p"), 2)

\* a flag with a digit as short option
OneFlag == FlagBool(<<"o", "n", "e">>, "1")

\* Args of test.cpp (foo, opt, verbose, number and pos) with a flag that
\* takes two values
Args ==
    [flags |-> <<FooFlag, OptFlag, VerboseFlag, NumberFlag, PairFlag>>,
     positionals |-> <<Positional("string", <<"p", "o", "s">>)>>]

\* Args with a flag whose short option is a digit and a second positional
DigitArgs ==
    [flags |-> <<FooFlag, OptFlag, NumberFlag, OneFlag>>,
     positionals |-> <<Positional("string", <<"p", "o", "s">>),
                       optional(Positional("string", <<"i", "n", "t">>))>>]

\* Args without the digit short option
NoDigitArgs ==
    [flags |-> <<FooFlag, OptFlag, NumberFlag>>,
     positionals |-> DigitArgs.positionals]

\* VecFlag of test.cpp: flag(vec, "vec").num(3)
VecFlag ==
    [flags |-> <<num(FlagVector("int64_t", <<"v", "e", "c">>, NoShortOpt), 3)>>,
     positionals |-> <<>>]

ValsName == <<"v", "a", "l", "s">>

\* VecFlagCollectArgs of test.cpp: flag(vals, "vals")
VecFlagCollectArgs ==
    [flags |-> <<FlagVector("int64_t", ValsName, NoShortOpt)>>,
     positionals |-> <<>>]

\* VecFlagDontCollectArgs of test.cpp: flag(vals, "vals").collect(false)
VecFlagDontCollectArgs ==
    [flags |-> <<collect(FlagVector("int64_t", ValsName, NoShortOpt), FALSE)>>,
     positionals |-> <<>>]

\* flag(vals, "vals").num(2)
VecFlagNumArgs ==
    [flags |-> <<num(FlagVector("int64_t", ValsName, NoShortOpt), 2)>>,
     positionals |-> <<>>]

\* flag(vals, "vals").num(2).collect()
VecFlagNumCollectArgs ==
    [flags |-> <<collect(num(FlagVector("int64_t", ValsName, NoShortOpt), 2), TRUE)>>,
     positionals |-> <<>>]

\* PosDelimArgs of test.cpp: three optional vectors
PosDelimArgs ==
    [flags |-> <<>>,
     positionals |-> <<optional(PositionalVector("string", <<"c", "o", "o", "l">>)),
                       optional(PositionalVector("string", <<"o", "k", "a", "y">>)),
                       optional(PositionalVector("string", <<"b", "a", "d">>))>>]

\* the arguments of the model
tA == <<"a">>
tB == <<"b">>
tDelim == <<"-", "-">>
tOpt == <<"-", "-", "o", "p", "t">>
tHelp == <<"-", "-", "h", "e", "l", "p">>
tVersion == <<"-", "-", "v", "e", "r", "s", "i", "o", "n">>
tF == <<"-", "f">>
tS == <<"-", "s">>
tH == <<"-", "h">>
tVF == <<"-", "v", "f">>
tFVVO == <<"-", "f", "v", "v", "o">>
tSO == <<"-", "s", "o">>
tHZ == <<"-", "h", "z">>
t1 == <<"1">>
t2 == <<"2">>
t3 == <<"3">>
t4 == <<"4">>
tEmpty == <<>>
tDash == <<"-">>
tNeg1 == <<"-", "1">>
tNeg42 == <<"-", "4", "2">>
tNeg52p2 == <<"-", "5", "2", ".", "2">>
tO == <<"-", "o">>
tNumber == <<"-", "-", "n", "u", "m", "b", "e", "r">>
tPair == <<"-", "-", "p", "a", "i", "r">>
tVec == <<"-", "-", "v", "e", "c">>
tVals == <<"-", "-", "v", "a", "l", "s">>
\* stacks of short options that are not valid
tFOA == <<"-", "f", "o", "a">>
tFZ == <<"-", "f", "z">>
tZF == <<"-", "z", "f">>
tFOZ == <<"-", "f", "o", "z">>
tFZO == <<"-", "f", "z", "o">>
tPZ == <<"-", "p", "z">>
tVFO == <<"-", "v", "f", "o">>
tFZOA == <<"-", "f", "z", "o", "a">>
\* a short option and its value in one argument
tOFV == <<"-", "o", "f", "v">>
tNEq6 == <<"-", "n", "=", "6">>
tN6 == <<"-", "n", "6">>
\* a long option and its value in one argument
tOptEq == <<"-", "-", "o", "p", "t", "=">>
tOptEqA == <<"-", "-", "o", "p", "t", "=", "a">>
tOptEqAEqB == <<"-", "-", "o", "p", "t", "=", "a", "=", "b">>
tFooEqA == <<"-", "-", "f", "o", "o", "=", "a">>
tZzEqA == <<"-", "-", "z", "z", "=", "a">>
tNumberEq5 == <<"-", "-", "n", "u", "m", "b", "e", "r", "=", "5">>
tNumberEq == <<"-", "-", "n", "u", "m", "b", "e", "r", "=">>
tPairEq1 == <<"-", "-", "p", "a", "i", "r", "=", "1">>

tC == <<"c">>
tX == <<"x">>
tZ == <<"z">>
tMode == <<"-", "-", "m", "o", "d", "e">>
tModeEqZ == <<"-", "-", "m", "o", "d", "e", "=", "z">>
tMA == <<"-", "m", "a">>
tLevel == <<"-", "-", "l", "e", "v", "e", "l">>
tTags == <<"-", "-", "t", "a", "g", "s">>

\* flag(mode, "mode", 'm').choices({ "a", "b" })
ModeFlag ==
    choices(FlagOptional("string", <<"m", "o", "d", "e">>, "m"), <<tA, tB>>)

\* flag(level, "level").choices({ "1", "x" }) of an optional<int64_t>:
\* the choice x is no integer
LevelFlag ==
    choices(FlagOptional("int64_t", <<"l", "e", "v", "e", "l">>, NoShortOpt),
            <<t1, tX>>)

\* flag(tags, "tags").collect(false).choices({ "a", "b" }) of a
\* vector<string>
TagsFlag ==
    choices(collect(FlagVector("string", <<"t", "a", "g", "s">>, NoShortOpt),
                    FALSE),
            <<tA, tB>>)

\* Args structs with choices: on the flags that take a value, on the bool
\* and the counting flag, and on the positional as in CustomType of
\* test.cpp
ChoiceArgs ==
    [flags |-> <<choices(FooFlag, <<tA>>), choices(VerboseFlag, <<tA>>),
                 ModeFlag, TagsFlag>>,
     positionals |-> <<choices(Positional("string", <<"p", "o", "s">>),
                               <<tA, tB, tC>>)>>]

\* an Args struct with choices on an integer flag and on an optional vector
\* of integers as positional; the choice x is no integer
IntChoiceArgs ==
    [flags |-> <<LevelFlag>>,
     positionals |-> <<choices(optional(PositionalVector("int64_t", <<"n", "u", "m", "s">>)),
                               <<t1, tX>>)>>]

tFoo == <<"-", "-", "f", "o", "o">>
tVerbose == <<"-", "-", "v", "e", "r", "b", "o", "s", "e">>

\* the values the Args struct may give a size_t before parse
CountInits == {0, 2}

\* Args of test.cpp without number and with an optional pos, its bool
\* initialised with b0 and its size_t with n0
OccurArgs(b0, n0) ==
    [flags |-> <<initialised(FooFlag, [InitFlagVal EXCEPT !.b = b0]),
                 OptFlag,
                 initialised(VerboseFlag, [InitFlagVal EXCEPT !.n = n0])>>,
     positionals |-> <<PositionalOptional("string", <<"p", "o", "s">>)>>]

\* a parser as constructed, but for an exit_ that returns
TestParsers == Parsers({TRUE}, {<<>>}, {TRUE}, {TRUE}, {TRUE})

\* a scenario: parsers, Args structs, the arguments argv is made of and the
\* longest argv
Scenarios ==
    { [parsers   |-> Parsers({TRUE}, {<<>>}, {TRUE}, BOOLEAN, {TRUE}),
       argsTypes |-> PositionalArgs,
       vocab     |-> {tA, tB, tDelim},
       maxLen    |-> MaxPosArgs],
      [parsers   |-> Parsers({TRUE}, {<<>>}, {TRUE}, BOOLEAN, {TRUE}),
       argsTypes |-> {CpStyleArgs},
       vocab     |-> {tA, tB, tDelim, tOpt},
       maxLen    |-> MaxPosArgs],
      [parsers   |-> Parsers({TRUE}, {TestVersion}, BOOLEAN, BOOLEAN, BOOLEAN),
       argsTypes |-> {TestArgs, ParentArgs},
       vocab     |-> {tA, tDelim, tF, tVF, tFVVO, tS, tSO, tHZ},
       maxLen    |-> MaxArgs],
      [parsers   |-> Parsers(BOOLEAN, {<<>>, TestVersion}, BOOLEAN, {TRUE}, BOOLEAN),
       argsTypes |-> {TestArgs},
       vocab     |-> {tA, tOpt, tHelp, tVersion, tH, tF},
       maxLen    |-> MaxArgs],
      \* stacks of short options
      [parsers   |-> TestParsers,
       argsTypes |-> {Args},
       vocab     |-> {tA, tFOA, tFZ, tZF, tFOZ, tFZO, tFZOA, tPZ, tVFO},
       maxLen    |-> MaxArgs],
      \* -fVALUE
      [parsers   |-> TestParsers,
       argsTypes |-> {Args},
       vocab     |-> {tA, tOFV, tNEq6, tN6, tO, tF},
       maxLen    |-> MaxArgs],
      \* --flag=value
      [parsers   |-> TestParsers,
       argsTypes |-> {Args},
       vocab     |-> {tA, tOptEq, tOptEqA, tOptEqAEqB, tFooEqA, tZzEqA,
                      tNumberEq5, tNumberEq, tPairEq1},
       maxLen    |-> MaxArgs],
      \* flags that take their values from the following arguments
      [parsers   |-> TestParsers,
       argsTypes |-> {Args},
       vocab     |-> {tA, t1, tNeg42, tOpt, tNumber, tPair, tF, tDelim},
       maxLen    |-> MaxValueArgs],
      \* negative numbers, with and without a digit as short option
      [parsers   |-> TestParsers,
       argsTypes |-> {DigitArgs, NoDigitArgs},
       vocab     |-> {tA, tEmpty, tDash, tNeg1, tNeg42, tNeg52p2, tNumber, tDelim},
       maxLen    |-> MaxArgs],
      \* VecFlag
      [parsers   |-> Parsers({TRUE}, {<<>>}, {TRUE}, {TRUE}, BOOLEAN),
       argsTypes |-> {VecFlag},
       vocab     |-> {tVec, t1, t2, t3, t4},
       maxLen    |-> MaxVecArgs],
      \* a vector flag given several times
      [parsers   |-> TestParsers,
       argsTypes |-> {VecFlagCollectArgs, VecFlagDontCollectArgs,
                      VecFlagNumArgs, VecFlagNumCollectArgs},
       vocab     |-> {tVals, t1, t2},
       maxLen    |-> MaxCollectArgs],
      \* PosDelimArgs
      [parsers   |-> TestParsers,
       argsTypes |-> {PosDelimArgs},
       vocab     |-> {tA, tF, tDelim},
       maxLen    |-> MaxDelimArgs],
      \* choices
      [parsers   |-> TestParsers,
       argsTypes |-> {ChoiceArgs},
       vocab     |-> {tA, tZ, tMode, tModeEqZ, tMA, tTags, tVF},
       maxLen    |-> MaxChoiceArgs],
      [parsers   |-> TestParsers,
       argsTypes |-> {IntChoiceArgs},
       vocab     |-> {tA, t1, tX, tZ, tLevel},
       maxLen    |-> MaxArgs],
      \* flags given several times
      [parsers   |-> TestParsers,
       argsTypes |-> {OccurArgs(b0, n0) : b0 \in BOOLEAN, n0 \in CountInits},
       vocab     |-> {tA, tF, tVF, tFoo, tVerbose, tOpt, tOptEqA, tOFV},
       maxLen    |-> MaxArgs] }

\* ----------------------------------------------------------------------
\* The specification
\* ----------------------------------------------------------------------

\* a parser was constructed and configured, parse is about to be called
Constructed(P, T, av, nd) ==
    /\ parser = P
    /\ argsType = T
    /\ argv = av
    /\ NDEBUG = nd
    /\ flags_ = <<>>
    /\ positionals_ = <<>>
    /\ remaining_ = <<>>
    /\ flagVal = <<>>
    /\ posVal = <<>>
    /\ size_ = <<>>
    /\ hasDigitShortOpt = FALSE
    /\ positionalsLeft = 0
    /\ positionalsRequired = 0
    /\ afterPosDelim = FALSE
    /\ halted = FALSE
    /\ positionalIdx = 0
    /\ argIdx = 0
    /\ io = <<>>
    /\ pc = "init"
    /\ result = "none"

\* the Args structs of the scenarios satisfy every assertion of the
\* library, so the build makes no difference to their parses: the build is
\* the one that compiles the assertions
Init ==
    \E sc \in Scenarios :
      \E P \in sc.parsers, T \in sc.argsTypes, av \in SeqsUpTo(sc.vocab, sc.maxLen) :
        Constructed(P, T, av, FALSE)

\* parse up to the loop: the registration of the flags and positionals and
\* the precomputation of hasDigitShortOpt, positionalsLeft and
\* positionalsRequired
ParseBegin ==
    /\ pc = "init"
    /\ NDEBUG \/ registrationAsserts(parser, argsType)
    /\ LET c == CtxOf(parser, argsType, argv)
           m == EnterLoop(c)
       IN  /\ flags_' = c.flags_
           /\ positionals_' = c.positionals_
           /\ hasDigitShortOpt' = c.hasDigitShortOpt
           /\ remaining_' = m.remaining_
           /\ flagVal' = m.flagVal
           /\ posVal' = m.posVal
           /\ size_' = m.size_
           /\ positionalsLeft' = m.positionalsLeft
           /\ positionalsRequired' = m.positionalsRequired
           /\ afterPosDelim' = m.afterPosDelim
           /\ halted' = m.halted
           /\ positionalIdx' = m.positionalIdx
           /\ argIdx' = m.argIdx
           /\ io' = m.io
           /\ pc' = m.pc
           /\ result' = m.result
    /\ UNCHANGED <<parser, argsType, argv, NDEBUG>>

\* an assertion of ArgsBase::flag or ArgsBase::positional fails while parse
\* registers the flags and positionals: the process is aborted
AssertionFails ==
    /\ pc = "init"
    /\ ~NDEBUG /\ ~registrationAsserts(parser, argsType)
    /\ pc' = "aborted"
    /\ UNCHANGED <<parser, argsType, argv, flags_, positionals_, remaining_,
                   flagVal, posVal, size_, hasDigitShortOpt, positionalsLeft,
                   positionalsRequired, afterPosDelim, halted, positionalIdx,
                   argIdx, io, result, NDEBUG>>

\* an iteration on the argument "--"
Delimiter == AtDelimiter(Ctx, Cur) /\ Becomes(delimiterBody(Ctx, Cur))

\* an iteration on a flag
FlagArg == AtFlag(Ctx, Cur) /\ Becomes(flagBody(Ctx, Cur))

\* an iteration on an argument for the next positional
PositionalArg == AtPositional(Ctx, Cur) /\ Becomes(positionalBody(Ctx, Cur))

\* an iteration on an argument no positional is left for, which is an error
SuperfluousArg == AtSuperfluous(Ctx, Cur) /\ Becomes(superfluousBody(Ctx, Cur))

\* an iteration on an argument no positional is left for, which halts
ExtraArgs == AtExtraArgs(Ctx, Cur) /\ Becomes(extraArgsBody(Ctx, Cur))

\* after the loop: --help was given
Help == AtHelp(Ctx, Cur) /\ Becomes(helpBody(Ctx, Cur))

\* after the loop: --version was given
Version == AtVersion(Ctx, Cur) /\ Becomes(versionBody(Ctx, Cur))

\* after the loop: parse halted
ReturnHalted == AtHalted(Ctx, Cur) /\ Becomes(returnBody(Cur))

\* after the loop: a required positional was not given
MissingArgument == AtMissing(Ctx, Cur) /\ Becomes(missingBody(Ctx, Cur))

\* after the loop: return args
ReturnArgs == AtReturn(Ctx, Cur) /\ Becomes(returnBody(Cur))

Next ==
    \/ ParseBegin
    \/ Delimiter
    \/ FlagArg
    \/ PositionalArg
    \/ SuperfluousArg
    \/ ExtraArgs
    \/ Help
    \/ Version
    \/ ReturnHalted
    \/ MissingArgument
    \/ ReturnArgs

Spec == Init /\ [][Next]_vars

\* ----------------------------------------------------------------------
\* Both builds, and Args structs that register a name or a short option
\* twice
\* ----------------------------------------------------------------------

\* longest argv of the parses of SpecBuilds
MaxBuildArgs == 2

\* TestArgs, which registers nothing twice, and Args structs that do: a
\* second flag foo, a second short option f, a flag and a positional of
\* one name, two positionals of one name, and flags that take the name or
\* the short option of the built-in flags
BuildArgs ==
    LET pos == <<Positional("string", <<"p", "o", "s">>)>>
    IN  { TestArgs,
          [flags |-> <<FooFlag, FlagCount(<<"f", "o", "o">>, "g")>>,
           positionals |-> pos],
          [flags |-> <<FooFlag, FlagCount(<<"f", "a", "s", "t">>, "f")>>,
           positionals |-> pos],
          [flags |-> <<FooFlag, FlagBool(<<"p", "o", "s">>, NoShortOpt)>>,
           positionals |-> pos],
          [flags |-> <<FooFlag>>,
           positionals |-> pos \o <<optional(pos[1])>>],
          [flags |-> <<FooFlag, FlagBool(<<"h", "e", "l", "p">>, NoShortOpt)>>,
           positionals |-> pos],
          [flags |-> <<FooFlag, FlagBool(<<"h", "o", "s", "t">>, "h")>>,
           positionals |-> pos],
          [flags |-> <<FooFlag, FlagBool(<<"v", "e", "r", "s", "i", "o", "n">>, "V")>>,
           positionals |-> pos] }

\* a parser was constructed and configured and parse is about to be called,
\* in a build with or without NDEBUG
InitBuilds ==
    \E P \in Parsers(BOOLEAN, {<<>>, TestVersion}, {TRUE}, BOOLEAN, {TRUE}),
       T \in BuildArgs,
       av \in SeqsUpTo({tA, tF, tHelp, tVersion, tDelim}, MaxBuildArgs),
       nd \in BOOLEAN :
        Constructed(P, T, av, nd)

NextBuilds ==
    \/ AssertionFails
    \/ Next

SpecBuilds == InitBuilds /\ [][NextBuilds]_vars

\* longest argv of the parses of SpecFair
MaxFairArgs == 2

\* parse is about to be called for TestArgs, with and without
\* errorOnExtraArgs_ and with an exit_ that returns or does not
InitFair ==
    \E P \in Parsers({TRUE}, {TestVersion}, {TRUE}, BOOLEAN, BOOLEAN),
       T \in {TestArgs},
       av \in SeqsUpTo({tA, tDelim, tF, tOpt, tHelp, tVersion}, MaxFairArgs) :
        Constructed(P, T, av, FALSE)

\* parse is sequential code that its caller runs to the end: a step that
\* can be taken is taken
SpecFair == InitFair /\ [][Next]_vars /\ WF_vars(Next)

\* ----------------------------------------------------------------------
\* Properties
\* ----------------------------------------------------------------------

\* parse is over: it returned or exit_ ended the process
Finished == pc \in {"returned", "exited"}

\* no argument of argv is a flag or the delimiter
FlagFree ==
    \A i \in 1..Len(argv) :
        argv[i] # tDelim /\ ~isFlag(hasDigitShortOptOf(flags_), argv[i])

\* the error messages written so far, without the usage lines
ErrorMessages ==
    SelectSeq(io, LAMBDA e : e.sink = "err" /\ e.kind # "Usage: ")

\* the first positional is a vector, every positional is required and none
\* halts
FirstVariadicAllRequired ==
    /\ Len(positionals_) >= 1
    /\ positionals_[1].many
    /\ \A j \in 1..Len(positionals_) :
          ~positionals_[j].optional /\ ~positionals_[j].halt

\* C1: n arguments without flag and delimiter, parsed against k required
\* positionals of which the first is a vector, n >= k: parse returns a
\* value, the first positional holds the first n-k+1 arguments in order and
\* every later positional holds exactly one of the others, in order.
C1_NonGreedyAllocation ==
    LET n == Len(argv)
        k == Len(positionals_)
    IN  (Finished /\ FlagFree /\ FirstVariadicAllRequired /\ n >= k)
        => /\ result = "value"
           /\ posVal[1] = SubSeq(argv, 1, n - k + 1)
           /\ \A j \in 2..k : posVal[j] = <<argv[n - k + j]>>

\* three required positionals, the first and another one vectors, four
\* arguments: the first vector holds two of them
C1_Witness ==
    /\ Finished /\ FlagFree /\ FirstVariadicAllRequired
    /\ Len(positionals_) = 3
    /\ Len(argv) = 4
    /\ \E j \in 2..3 : positionals_[j].many
    /\ result = "value"
    /\ Len(posVal[1]) = 2
    /\ posVal[1][1] # posVal[1][2]

\* an order-preserving split of n arguments among the positionals exists:
\* at least one for every required one, at most one for every scalar
SplitExists(positionals, n) ==
    \E cnt \in [1..Len(positionals) -> 0..n] :
        /\ \A j \in 1..Len(positionals) :
              /\ ~positionals[j].optional => cnt[j] >= 1
              /\ ~positionals[j].many => cnt[j] <= 1
        /\ LET Sum[j \in 0..Len(positionals)] ==
                   IF j = 0 THEN 0 ELSE Sum[j - 1] + cnt[j]
           IN  Sum[Len(positionals)] = n

\* C2: for arguments without flag and delimiter, if the arguments can be
\* split among the positionals then parse returns a value: it reports
\* neither a missing nor a superfluous argument.
C2_MatchedSoThatParsingDoesNotFail ==
    (Finished /\ FlagFree /\ SplitExists(positionals_, Len(argv))
       /\ \A j \in 1..Len(positionals_) : ~positionals_[j].halt)
    => /\ result = "value"
       /\ ErrorMessages = <<>>

\* the argument at position i of av (1-based) is a flag that is given here
\* with the next argument as its value: a registered flag that does not
\* halt and takes one argument, in its long form, followed by an argument
\* that is neither a flag nor the delimiter, not directly behind a flag
\* and before every delimiter
FlagWithValueAt(av, fl, i) ==
    /\ i + 1 <= Len(av)
    /\ Len(av[i]) > 2 /\ av[i][1] = "-" /\ av[i][2] = "-"
    /\ find(av[i], "=") = -1
    /\ LET f == flagByName(fl, substrFrom(av[i], 2))
       IN  f # 0 /\ fl[f].num = 1 /\ ~fl[f].halt
    /\ av[i + 1] # tDelim /\ ~isFlag(hasDigitShortOptOf(fl), av[i + 1])
    /\ i > 1 => ~isFlag(hasDigitShortOptOf(fl), av[i - 1])
    /\ \A j \in 1..(i - 1) : av[j] # tDelim

\* av without the arguments at the positions i and i + 1
WithoutPair(av, i) == SubSeq(av, 1, i - 1) \o SubSeq(av, i + 2, Len(av))

\* C3: inserting a registered non-halting flag that takes one argument,
\* together with its value, at a boundary before the delimiter changes
\* neither the outcome of parse nor the values of the positionals.
C3_FlagInsertionNeutral ==
    Finished =>
      \A i \in 1..Len(argv) :
        FlagWithValueAt(argv, flags_, i)
        => LET without == Parse(parser, argsType, WithoutPair(argv, i))
           IN  /\ result = without.result
               /\ result = "value" => posVal = without.posVal

\* the arguments at hand when the loop has ended without a halt
LoopEndedNotHalted == pc = "loop" /\ ~halted /\ argIdx >= Len(argv)

\* the required positionals that received no argument
Unsatisfied ==
    {p \in 1..Len(positionals_) : ~positionals_[p].optional /\ size_[p] = 0}

\* C4: when the loop has ended without a halt and a required positional
\* received no argument, parse returns no value and its one message is
\* 'Missing argument' with the name of the first such positional; when only
\* optional positionals received no argument parse reports nothing, returns
\* a value and the variables of those positionals keep their initial value.
C4_MissingArgument ==
    [][ LoopEndedNotHalted =>
          IF Unsatisfied # {}
          THEN /\ result' # "value"
               /\ pc' \in {"returned", "exited"}
               /\ Len(io') >= Len(io) + 1
               /\ io'[Len(io) + 1].sink = "err"
               /\ io'[Len(io) + 1].kind = "Missing argument"
               /\ \E p \in Unsatisfied :
                     /\ \A q \in Unsatisfied : p <= q
                     /\ io'[Len(io) + 1].arg = positionals_[p].name
          ELSE /\ result' = "value"
               /\ pc' = "returned"
               /\ io' = io
               /\ \A p \in 1..Len(positionals_) :
                     size_[p] = 0 => posVal'[p] = InitPosVal(positionals_[p])
      ]_vars

\* parse failed for the second of three positionals, behind an optional one
\* that received nothing either
C4_Witness ==
    /\ Finished
    /\ ~halted
    /\ result = "nullopt"
    /\ Len(io) >= 1 /\ io[1].kind = "Missing argument"
    /\ Len(positionals_) = 3
    /\ positionals_[1].optional /\ size_[1] = 0
    /\ io[1].arg = positionals_[2].name
    /\ ~positionals_[3].optional /\ size_[3] = 0

\* the argument at hand is handed to positional matching and no positional
\* is left for it
UnmatchedPositional ==
    /\ pc = "loop" /\ ~halted /\ argIdx < Len(argv)
    /\ argv[argIdx + 1] # tDelim
    /\ afterPosDelim \/ ~isFlag(hasDigitShortOpt, argv[argIdx + 1])
    /\ positionalIdx >= Len(positionals_)

\* C5: an argument for which no positional is left makes parse fail with
\* 'Superfluous argument' if errorOnExtraArgs is on; if it is off parse
\* halts, remaining() is that argument and all later ones, nothing is
\* written to the error sink and parse returns a value.
C5_UnmatchedPositional ==
    UnmatchedPositional =>
      LET end == Run(Ctx, Cur)
      IN  IF parser.errorOnExtraArgs_
          THEN /\ end.result # "value"
               /\ Len(end.io) >= Len(io) + 1
               /\ end.io[Len(io) + 1].sink = "err"
               /\ end.io[Len(io) + 1].kind = "Superfluous argument"
               /\ end.io[Len(io) + 1].arg = argv[argIdx + 1]
          ELSE /\ end.halted
               /\ end.remaining_ = SubSeq(argv, argIdx + 1, Len(argv))
               /\ \A e \in 1..Len(end.io) : end.io[e].sink # "err"
               /\ end.result = "value"

\* errorOnExtraArgs is off, one positional, three arguments: parse returned
\* a value and the last two arguments are in remaining()
C5_Witness ==
    /\ Finished
    /\ ~parser.errorOnExtraArgs_
    /\ FlagFree
    /\ Len(positionals_) = 1
    /\ Len(argv) = 3
    /\ result = "value"
    /\ halted
    /\ remaining_ = SubSeq(argv, 2, 3)
    /\ positionalIdx = 1

\* a flag or a positional marked halt has been matched
HaltingMatched ==
    \/ \E f \in 1..Len(flags_) : flags_[f].halt /\ flagVal[f] # InitFlagVal
    \/ \E p \in 1..Len(positionals_) : positionals_[p].halt /\ size_[p] > 0

\* C6: once a flag or positional marked halt has been matched (a flag in
\* its long form, its short form or anywhere in a stack of short options),
\* parse reports no error and returns a value.
C6_HaltStopsValidation ==
    (Finished /\ HaltingMatched)
    => /\ ErrorMessages = <<>>
       /\ pc = "returned" => result = "value"

\* C7: when parse halted on a flag or positional marked halt, remaining()
\* is the arguments behind the last one consumed, so that no argument
\* consumed as a flag, as the value of a flag or as the value of a
\* positional is in it.
C7_RemainingIsUnconsumedSuffix ==
    (Finished /\ result = "value" /\ halted /\ HaltingMatched)
    => remaining_ = SubSeq(argv, argIdx + 2, Len(argv))

\* the built-in flag --help, -h has been matched
HelpMatched ==
    /\ parser.addHelp_
    /\ \E f \in 1..Len(flags_) : flags_[f] = HelpFlag /\ flagVal[f].b

\* the built-in flag --version has been matched
VersionMatched ==
    /\ parser.version_ # <<>>
    /\ \E f \in 1..Len(flags_) : flags_[f] = VersionFlag /\ flagVal[f].b

\* C8: when the built-in --help, -h (or --version) has been matched, parse
\* writes the help text (the version and a newline) to the normal sink,
\* then calls exit once, with status 0, writes nothing to the error sink
\* and returns a value if exit returns.
C8_HelpAndVersion ==
    (Finished /\ (HelpMatched \/ VersionMatched))
    => /\ io = IF HelpMatched
               THEN <<OutEvent("help", <<>>), ExitEvent(0)>>
               ELSE <<OutEvent("version", parser.version_),
                      OutEvent("\n", <<>>), ExitEvent(0)>>
       /\ parser.exitReturns => (pc = "returned" /\ result = "value")

\* exit was called with the status 0
ExitedWithZero == \E e \in 1..Len(io) : io[e].sink = "exit" /\ io[e].status = 0

AtStack ==
    /\ pc = "loop" /\ ~halted /\ argIdx < Len(argv) /\ ~afterPosDelim
    /\ LET arg == argv[argIdx + 1]
       IN  /\ arg # tDelim /\ isFlag(hasDigitShortOpt, arg)
           /\ arg[2] # "-" /\ Len(arg) >= 3
           /\ \A k \in 2..(Len(arg) - 1) :
                 LET f == flagByShortOpt(flags_, arg[k])
                 IN  f # 0 /\ flags_[f].num = 0

\* how often the short option ch occurs in the stack arg before its last
\* character
Occurrences(arg, ch) == Cardinality({k \in 2..(Len(arg) - 1) : arg[k] = ch})

\* the variables of the flags after every short option of the stack but
\* the last was applied once per occurrence
StackApplied(arg) ==
    [f \in 1..Len(flags_) |->
        LET o == Occurrences(arg, flags_[f].shortOpt)
        IN  IF o = 0 THEN flagVal[f]
            ELSE IF flags_[f].kind = "bool" THEN [flagVal[f] EXCEPT !.b = TRUE]
            ELSE [flagVal[f] EXCEPT !.n = flagVal[f].n + o]]

\* the step of parse on the last short option of the stack given alone,
\* after the others were applied
LastAlone ==
    LET arg == argv[argIdx + 1]
    IN  flagBody([Ctx EXCEPT !.argv[argIdx + 1] = <<"-", arg[Len(arg)]>>],
                 [Cur EXCEPT !.flagVal = StackApplied(arg)])

\* C10: in a stack of short options of which all but the last are flags
\* without arguments, each of these is applied once per occurrence and the
\* last short option is handled as if given alone: a flag without
\* arguments is applied, a flag with arguments takes them from the
\* following arguments.
C10_ShortOptionStack ==
    [][ AtStack =>
          LET arg  == argv[argIdx + 1]
              last == flagByShortOpt(flags_, arg[Len(arg)])
          IN  /\ pc' = LastAlone.pc
              /\ result' = LastAlone.result
              /\ io' = LastAlone.io
              /\ posVal' = posVal
              /\ pc' = "loop" => flagVal' = LastAlone.flagVal
              /\ (/\ last # 0 /\ flags_[last].num = 1
                  /\ argIdx + 2 <= Len(argv)
                  /\ ~isFlag(hasDigitShortOpt, argv[argIdx + 2]))
                 => /\ flagVal'[last].v = <<argv[argIdx + 2]>>
                    /\ \A f \in 1..Len(flags_) :
                          f # last => flagVal'[f] = StackApplied(arg)[f]
      ]_vars

\* -fvvo a a: foo is set, verbose is 2, opt is the next argument and pos
\* the one after it
C10_Witness ==
    /\ Finished
    /\ result = "value"
    /\ Len(argv) = 3 /\ argv[1] = tFVVO /\ argv[2] = tA /\ argv[3] = tA
    /\ flagVal[flagByShortOpt(flags_, "f")].b
    /\ flagVal[flagByShortOpt(flags_, "v")].n = 2
    /\ flagVal[flagByShortOpt(flags_, "o")].v = <<tA>>
    /\ posVal[1] = <<tA>>

\* the argument at hand is a flag in its short form
AtShortToken ==
    /\ pc = "loop" /\ ~halted /\ argIdx < Len(argv) /\ ~afterPosDelim
    /\ argv[argIdx + 1] # tDelim
    /\ isFlag(hasDigitShortOpt, argv[argIdx + 1])
    /\ argv[argIdx + 1][2] # "-"

\* the argument at hand is a stack of short options: it is not a short
\* option of one argument followed by its value
AtCluster ==
    /\ AtShortToken
    /\ LET arg   == argv[argIdx + 1]
           first == flagByShortOpt(flags_, arg[2])
       IN  ~(first # 0 /\ flags_[first].num = 1 /\ Len(arg) > 2)

\* the character at the position k of the stack arg resolves to no flag
Unregistered(arg, k) == flagByShortOpt(flags_, arg[k]) = 0

\* the character at the position k of the stack arg is not the last one and
\* resolves to a flag that takes arguments
NeedsValueInside(arg, k) ==
    /\ k < Len(arg)
    /\ ~Unregistered(arg, k)
    /\ flags_[flagByShortOpt(flags_, arg[k])].num >= 1

\* the step fails with the message kind about the character ch
FailsWith(kind, ch) ==
    /\ pc' \in {"returned", "exited"}
    /\ result' # "value"
    /\ Len(io') >= Len(io) + 1
    /\ io'[Len(io) + 1].sink = "err"
    /\ io'[Len(io) + 1].kind = kind
    /\ io'[Len(io) + 1].arg = <<ch>>

\* the step fails with a message of that kind
FailsWithKind(kind) ==
    /\ pc' \in {"returned", "exited"}
    /\ result' # "value"
    /\ Len(io') >= Len(io) + 1
    /\ io'[Len(io) + 1].sink = "err"
    /\ io'[Len(io) + 1].kind = kind

\* C11 as stated: a stack whose first character is a flag without arguments
\* and in which a character that is not the last is a flag with arguments
\* fails with "Option '<c>' requires ..."; a stack in which a character, at
\* any position, resolves to no flag fails with "Invalid option"; no value
\* is returned.
C11_ClusterErrors_AsStated ==
    [][ AtCluster =>
          LET arg   == argv[argIdx + 1]
              first == flagByShortOpt(flags_, arg[2])
          IN  /\ (/\ first # 0 /\ flags_[first].num = 0
                  /\ \E k \in 3..Len(arg) : NeedsValueInside(arg, k))
                 => FailsWithKind("Option requires argument(s)")
              /\ (\E k \in 2..Len(arg) : Unregistered(arg, k))
                 => FailsWithKind("Invalid option")
      ]_vars

\* the leftmost character of the stack arg that stops the stack, 0 if none
LeftmostStop(arg) ==
    LET stops == {k \in 2..Len(arg) :
                     Unregistered(arg, k) \/ NeedsValueInside(arg, k)}
    IN  IF stops = {} THEN 0
        ELSE CHOOSE k \in stops : \A j \in stops : k <= j

\* C11: in a stack of short options the leftmost character that resolves to
\* no flag, or that is not the last one and resolves to a flag with
\* arguments, decides: parse fails with "Invalid option '<c>'" in the first
\* case and with "Option '<c>' requires ..." in the second, and returns no
\* value.
C11_ClusterErrors ==
    [][ (AtCluster /\ LeftmostStop(argv[argIdx + 1]) # 0) =>
          LET arg == argv[argIdx + 1]
              k   == LeftmostStop(arg)
          IN  IF Unregistered(arg, k)
              THEN FailsWith("Invalid option", arg[k])
              ELSE FailsWith("Option requires argument(s)", arg[k])
      ]_vars

\* -foa: parse failed on the o, after foo was set
C11_Witness ==
    /\ Finished
    /\ Len(argv) >= 1 /\ argv[1] = tFOA
    /\ result = "nullopt"
    /\ io[1].kind = "Option requires argument(s)"
    /\ io[1].arg = <<"o">>
    /\ flagVal[flagByShortOpt(flags_, "f")].b

\* the string str is what the type accepts: any string for std::string, an
\* optional '-' and digits for int64_t
Accepted(type, str) ==
    \/ type = "string"
    \/ /\ type = "int64_t"
       /\ LET body == IF Len(str) >= 1 /\ str[1] = "-" THEN Tail(str) ELSE str
          IN  Len(body) >= 1 /\ \A i \in 1..Len(body) : body[i] \in Digits

\* the value the string str stands for
Converted(type, str) ==
    IF type = "string" THEN str
    ELSE IF str[1] = "-" THEN 0 - DecimalValue(Tail(str))
    ELSE DecimalValue(str)

\* the variable of the flag after one occurrence with the values strs: an
\* optional holds the value, a vector holds the values behind the ones it
\* held if it collects and the values alone if it does not
AfterOccurrence(flag, old, strs) ==
    LET vals == [i \in 1..Len(strs) |-> Converted(flag.type, strs[i])]
    IN  IF flag.kind = "vector" /\ flag.collect
        THEN [old EXCEPT !.v = old.v \o vals]
        ELSE [old EXCEPT !.v = vals]

\* the step gives the flag f one occurrence with the values strs, changes
\* no other flag and no positional, and leaves the argument behind the
\* last of the consumed following arguments as the next one
OccurrenceStep(f, strs, consumed) ==
    /\ flagVal' = [flagVal EXCEPT ![f] = AfterOccurrence(flags_[f], flagVal[f], strs)]
    /\ posVal' = posVal
    /\ io' = io
    /\ IF flags_[f].halt
       THEN halted' /\ remaining_' = SubSeq(argv, argIdx + consumed + 2, Len(argv))
       ELSE pc' = "loop" /\ ~halted' /\ argIdx' = argIdx + consumed + 1

\* the argument at hand is a short option of one argument followed by
\* further characters
AtGlued ==
    /\ AtShortToken
    /\ LET arg   == argv[argIdx + 1]
           first == flagByShortOpt(flags_, arg[2])
       IN  Len(arg) > 2 /\ first # 0 /\ flags_[first].num = 1

\* C12: a token -fREST with non-empty REST whose f is a flag of exactly one
\* argument gives the whole REST to that flag as its one value: no other
\* flag is applied, no following argument is consumed, and a REST that the
\* type of the flag does not accept makes parse fail with 'Invalid value'.
C12_GluedShortValue ==
    [][ AtGlued =>
          LET arg  == argv[argIdx + 1]
              f    == flagByShortOpt(flags_, arg[2])
              REST == SubSeq(arg, 3, Len(arg))
          IN  IF Len(flags_[f].choices) > 0 /\ ~InChoices(flags_[f].choices, REST)
              THEN FailsWithKind("Invalid value, possible values")
              ELSE IF Accepted(flags_[f].type, REST)
              THEN OccurrenceStep(f, <<REST>>, 0)
              ELSE /\ FailsWithKind("Invalid value")
                   /\ io'[Len(io) + 1].arg = REST
                   /\ flagVal' = flagVal
      ]_vars

\* -ofv a: opt is fv, foo and verbose are not touched and pos is a
C12_Witness ==
    /\ Finished
    /\ argv = <<tOFV, tA>>
    /\ result = "value"
    /\ flagVal[flagByShortOpt(flags_, "o")].v = <<<<"f", "v">>>>
    /\ ~flagVal[flagByShortOpt(flags_, "f")].b
    /\ flagVal[flagByShortOpt(flags_, "v")].n = 0
    /\ posVal[1] = <<tA>>

\* the argument at hand is a flag in its long form
AtLongToken ==
    /\ pc = "loop" /\ ~halted /\ argIdx < Len(argv) /\ ~afterPosDelim
    /\ argv[argIdx + 1] # tDelim
    /\ isFlag(hasDigitShortOpt, argv[argIdx + 1])
    /\ argv[argIdx + 1][2] = "-"

\* the positions of the character ch in arg
PositionsOf(arg, ch) == {i \in 1..Len(arg) : arg[i] = ch}

\* the position of the first ch in arg
FirstPositionOf(arg, ch) ==
    CHOOSE i \in PositionsOf(arg, ch) : \A j \in PositionsOf(arg, ch) : i <= j

\* the flags of that name
Named(name) == {f \in 1..Len(flags_) : flags_[f].name = name}

\* C13: a long-form token --name=V, where name is the text between -- and
\* the first '=': an unregistered name makes parse fail with 'Invalid
\* option'; a flag that does not take exactly one argument makes parse fail
\* with the '='-syntax error; else V, everything behind the first '=', be it
\* empty, is the one value of the flag and no following argument is
\* consumed.
C13_InlineEqualsSyntax ==
    [][ (AtLongToken /\ PositionsOf(argv[argIdx + 1], "=") # {}) =>
          LET arg  == argv[argIdx + 1]
              eq   == FirstPositionOf(arg, "=")
              name == SubSeq(arg, 3, eq - 1)
              V    == SubSeq(arg, eq + 1, Len(arg))
          IN  IF Named(name) = {}
              THEN /\ FailsWithKind("Invalid option")
                   /\ flagVal' = flagVal
              ELSE \E f \in Named(name) :
                     IF flags_[f].num # 1
                     THEN /\ FailsWithKind("'='-syntax can not be used")
                          /\ flagVal' = flagVal
                     ELSE IF Len(flags_[f].choices) > 0
                             /\ ~InChoices(flags_[f].choices, V)
                     THEN FailsWithKind("Invalid value, possible values")
                     ELSE IF Accepted(flags_[f].type, V)
                     THEN OccurrenceStep(f, <<V>>, 0)
                     ELSE /\ FailsWithKind("Invalid value")
                          /\ io'[Len(io) + 1].arg = V
                          /\ flagVal' = flagVal
      ]_vars

\* --opt= a: opt is set, to the empty string, and pos is a
C13_Witness ==
    /\ Finished
    /\ argv = <<tOptEq, tA>>
    /\ result = "value"
    /\ flagVal[flagByName(flags_, <<"o", "p", "t">>)].v = <<tEmpty>>
    /\ flagVal[flagByName(flags_, <<"o", "p", "t">>)] # InitFlagVal
    /\ posVal[1] = <<tA>>

\* the token looks like a flag: it has at least two characters, starts
\* with '-', is not "--", and a digit is registered as a short option or
\* the token is not a number
LooksLikeFlag(tok) ==
    /\ Len(tok) >= 2
    /\ tok[1] = "-"
    /\ tok # <<"-", "-">>
    /\ (\E f \in 1..Len(flags_) : flags_[f].shortOpt \in Digits) \/ ~isNumber(tok)

\* the arguments from the position i of argv on (1-based), up to n of them,
\* before the end of argv and before the first that looks like a flag
RECURSIVE ValueRun(_, _)
ValueRun(i, n) ==
    IF n = 0 \/ i > Len(argv) \/ LooksLikeFlag(argv[i])
    THEN <<>>
    ELSE <<argv[i]>> \o ValueRun(i + 1, n - 1)

\* the flag the argument at hand gives without a value in the argument
\* itself, 0 if there is none: the flag of that name for --name, the last
\* short option of a short form of which every other short option is a
\* flag without arguments
FlagGivenBare ==
    LET arg == argv[argIdx + 1]
    IN  IF AtLongToken
        THEN IF PositionsOf(arg, "=") = {} /\ Named(SubSeq(arg, 3, Len(arg))) # {}
             THEN CHOOSE f \in Named(SubSeq(arg, 3, Len(arg))) : TRUE
             ELSE 0
        ELSE IF AtShortToken
                /\ \A k \in 2..(Len(arg) - 1) :
                      /\ ~Unregistered(arg, k)
                      /\ flags_[flagByShortOpt(flags_, arg[k])].num = 0
        THEN flagByShortOpt(flags_, arg[Len(arg)])
        ELSE 0

\* the name the messages use for the flag the argument at hand gives
OptNameAtHand ==
    LET arg == argv[argIdx + 1]
    IN  IF arg[2] = "-" THEN arg ELSE <<arg[Len(arg)]>>

\* the first of the strings the type does not accept
FirstNotAccepted(type, strs) ==
    strs[CHOOSE i \in 1..Len(strs) :
            /\ ~Accepted(type, strs[i])
            /\ \A j \in 1..(i - 1) : Accepted(type, strs[j])]

\* C14: a flag of n >= 1 arguments given without a value in its own
\* argument takes the following arguments as values, up to the end of
\* argv, up to the first that looks like a flag and up to n of them; with
\* fewer than n parse fails with "Option '<name>' requires n argument(s)";
\* with n the values are the flag's and parse goes on with the argument
\* behind the n-th value.
C14_FlagValueConsumption ==
    [][ ((AtLongToken \/ AtShortToken) /\ FlagGivenBare # 0
           /\ flags_[FlagGivenBare].num >= 1) =>
          LET f    == FlagGivenBare
              n    == flags_[f].num
              vals == ValueRun(argIdx + 2, n)
          IN  IF Len(vals) < n
              THEN /\ FailsWithKind("Option requires argument(s)")
                   /\ io'[Len(io) + 1].arg = OptNameAtHand
                   /\ flagVal'[f] = flagVal[f]
                   /\ posVal' = posVal
              ELSE IF /\ Len(flags_[f].choices) > 0
                      /\ \E i \in 1..n :
                            /\ ~InChoices(flags_[f].choices, vals[i])
                            /\ \A j \in 1..(i - 1) :
                                  /\ InChoices(flags_[f].choices, vals[j])
                                  /\ Accepted(flags_[f].type, vals[j])
              THEN FailsWithKind("Invalid value, possible values")
              ELSE IF \E i \in 1..n : ~Accepted(flags_[f].type, vals[i])
              THEN /\ FailsWithKind("Invalid value")
                   /\ io'[Len(io) + 1].arg = FirstNotAccepted(flags_[f].type, vals)
              ELSE /\ pc' = "loop"
                   /\ io' = io
                   /\ flagVal'[f] = AfterOccurrence(flags_[f], flagVal[f], vals)
                   /\ posVal' = posVal
                   /\ argIdx' = IF halted' THEN argIdx + n ELSE argIdx + n + 1
      ]_vars

\* --pair 1 1 a: pair holds the two values and the argument behind them is
\* the positional
C14_Witness ==
    /\ Finished
    /\ argv = <<tPair, t1, t1, tA>>
    /\ result = "value"
    /\ flagVal[flagByName(flags_, <<"p", "a", "i", "r">>)].v = <<1, 1>>
    /\ posVal[1] = <<tA>>

\* parse<VecFlag>({"--vec", v1, v2, v3, v4}) of a parser as constructed
\* has ended
VecFlagOverSuppliedDone ==
    /\ Finished
    /\ argsType = VecFlag
    /\ parser.addHelp_ /\ parser.version_ = <<>>
    /\ parser.exitOnError_ /\ parser.errorOnExtraArgs_
    /\ Len(argv) = 5 /\ argv[1] = tVec
    /\ \A i \in 2..5 : argv[i] \in {t1, t2, t3, t4}

\* C15 as stated: --vec with four values against a vector flag of num(3),
\* no positional, the parser as constructed: parse fails with an arity
\* error about the flag and returns no value.
C15_OverSupplied_AsStated ==
    VecFlagOverSuppliedDone =>
      /\ result # "value"
      /\ \E e \in 1..Len(io) :
            /\ io[e].sink = "err"
            /\ io[e].kind = "Option requires argument(s)"
            /\ io[e].arg = tVec

\* C15: --vec with four values against a vector flag of num(3), no
\* positional, the parser as constructed: the flag takes the first three
\* values, the fourth is an argument no positional is left for, parse
\* fails with "Superfluous argument '<the fourth>'", calls exit with 1 and
\* returns no value.
C15_OverSupplied ==
    VecFlagOverSuppliedDone =>
      /\ result # "value"
      /\ io = <<ErrEvent("Superfluous argument", argv[5], <<>>, <<>>, ""),
                UsageEvent, ExitEvent(1)>>
      /\ flagVal[flagByName(flags_, <<"v", "e", "c">>)].v
            = [i \in 1..3 |-> DigitVal(argv[i + 1][1])]

\* --vec 1 2 3 4 has failed on the 4
C15_Witness ==
    /\ VecFlagOverSuppliedDone
    /\ argv = <<tVec, t1, t2, t3, t4>>
    /\ result # "value"
    /\ io[1].kind = "Superfluous argument"
    /\ io[1].arg = t4

\* the Args structs with one vector flag, vals: the ones whose flag
\* collects (by default, or by collect() after num) and the ones whose flag
\* does not (by collect(false), or by num)
CollectingArgs == {VecFlagCollectArgs, VecFlagNumCollectArgs}

OverwritingArgs == {VecFlagDontCollectArgs, VecFlagNumArgs}

\* the number of values the flag vals takes: 2 after num(2), else 1
ValsArity == IF argsType \in {VecFlagNumArgs, VecFlagNumCollectArgs} THEN 2 ELSE 1

\* argv is k >= 0 occurrences of --vals, each followed by as many values
\* as the flag takes, and nothing else
OccurrencesOnly ==
    /\ Len(argv) % (ValsArity + 1) = 0
    /\ \A i \in 1..Len(argv) :
          IF (i - 1) % (ValsArity + 1) = 0
          THEN argv[i] = tVals
          ELSE argv[i] \in {t1, t2}

\* the values of the arguments i..j of argv
ValuesOf(i, j) == [x \in 1..(j - i + 1) |-> DigitVal(argv[i + x - 1][1])]

\* the values of all occurrences in the order of argv
AllOccurrenceValues ==
    LET vs == SelectSeq(argv, LAMBDA t : t # tVals)
    IN  [x \in 1..Len(vs) |-> DigitVal(vs[x][1])]

\* C16: a vector flag that collects, given k times, each time with as many
\* values as it takes, ends with the values of all k occurrences in the
\* order of argv; a vector flag that does not collect (after
\* collect(false), or after num(n)), given k >= 1 times, ends with the
\* values of its last occurrence.
C16_CollectVersusOverwrite ==
    (Finished /\ argsType \in (CollectingArgs \cup OverwritingArgs)
       /\ OccurrencesOnly) =>
      /\ result = "value"
      /\ LET f == flagByName(flags_, ValsName)
         IN  IF argsType \in CollectingArgs
             THEN flagVal[f].v = AllOccurrenceValues
             ELSE Len(argv) > 0 =>
                    flagVal[f].v = ValuesOf(Len(argv) - ValsArity + 1, Len(argv))

\* --vals 1 2 --vals 2 1 against num(2), which switched collect off: the
\* vector is 2 1
C16_Witness ==
    /\ Finished
    /\ result = "value"
    /\ argsType = VecFlagNumArgs
    /\ argv = <<tVals, t1, t2, tVals, t2, t1>>
    /\ flagVal[flagByName(flags_, ValsName)].v = <<2, 1>>

\* the vector flags that take n >= 1 values
VectorFlags ==
    {f \in 1..Len(flags_) : flags_[f].kind = "vector" /\ flags_[f].num >= 1}

\* C17: after a parse that returned a value, the size of the vector of a
\* vector flag of n >= 1 values is 0 or a multiple of n, and 0 or n if the
\* flag does not collect.
C17_VectorSizeMultipleOfNum ==
    (Finished /\ result = "value") =>
      \A f \in VectorFlags :
        /\ Len(flagVal[f].v) % flags_[f].num = 0
        /\ ~flags_[f].collect => Len(flagVal[f].v) \in {0, flags_[f].num}

\* --vals 1 2 --vals 2 1 against num(2).collect(): the vector has four
\* elements
C17_Witness ==
    /\ Finished
    /\ result = "value"
    /\ argsType = VecFlagNumCollectArgs
    /\ \E f \in VectorFlags :
          /\ flags_[f].num = 2
          /\ Len(flagVal[f].v) = 4

\* parse is at an argument before the delimiter that is not the delimiter
BeforeDelimiter ==
    /\ pc = "loop" /\ ~halted /\ argIdx < Len(argv) /\ ~afterPosDelim
    /\ argv[argIdx + 1] # tDelim

\* the step handed the argument at hand to positional matching: a
\* positional took it (one positional argument less is left), or a
\* positional refused it, or no positional was left for it, which is an
\* error or a halt with the argument as the first of remaining()
HandledAsPositional ==
    \/ /\ pc' = "loop"
       /\ positionalsLeft' = positionalsLeft - 1
       /\ flagVal' = flagVal
    \/ /\ FailsWithKind("Invalid value") \/ FailsWithKind("Invalid value, possible values")
       /\ positionalIdx < Len(positionals_)
       /\ io'[Len(io) + 1].name = positionals_[positionalIdx + 1].name
    \/ FailsWithKind("Superfluous argument")
    \/ /\ pc' = "loop" /\ halted'
       /\ remaining_' = SubSeq(argv, argIdx + 1, Len(argv))
       /\ flagVal' = flagVal

\* the step handled the argument at hand as a flag: no positional is
\* touched, and a flag is applied or an error about an option, named as in
\* the argument (--name or a short option), is reported
HandledAsFlag ==
    /\ posVal' = posVal
    /\ positionalsLeft' = positionalsLeft
    /\ positionalIdx' = positionalIdx
    /\ \/ /\ pc' = "loop"
          /\ io' = io
          /\ halted' => remaining_' # SubSeq(argv, argIdx + 1, Len(argv))
       \/ \E kind \in {"Invalid option", "Option requires argument(s)",
                       "'='-syntax can not be used"} :
             FailsWithKind(kind)
       \/ /\ FailsWithKind("Invalid value") \/ FailsWithKind("Invalid value, possible values")
          /\ LET name == io'[Len(io) + 1].name
             IN  Len(name) = 1 \/ name[1] = "-"

\* a digit is registered as a short option
DigitShortOptRegistered ==
    \E f \in 1..Len(flags_) : flags_[f].shortOpt \in Digits

\* C18: before the delimiter a token is handled as a flag iff it has at
\* least two characters, starts with '-', is not "--", and a digit is
\* registered as short option or the token is not a number; else it is
\* handed to positional matching.  So -42 and -52.2 are flags iff a digit
\* is registered as short option, and "-" and the empty string never are.
C18_TokenClassification ==
    [][ BeforeDelimiter =>
          LET tok == argv[argIdx + 1]
          IN  /\ LooksLikeFlag(tok) => (HandledAsFlag /\ ~HandledAsPositional)
              /\ ~LooksLikeFlag(tok) => (HandledAsPositional /\ ~HandledAsFlag)
              /\ tok \in {tNeg42, tNeg52p2, tNeg1} =>
                    (HandledAsFlag <=> DigitShortOptRegistered)
              /\ tok \in {tDash, tEmpty} => HandledAsPositional
      ]_vars

\* --number -42 -52.2 without a digit as short option: number is -42 and
\* pos is -52.2
C18_Witness ==
    /\ Finished
    /\ argsType = NoDigitArgs
    /\ argv = <<tNumber, tNeg42, tNeg52p2>>
    /\ result = "value"
    /\ flagVal[flagByShortOpt(flags_, "n")].v = <<0 - 42>>
    /\ posVal[1] = <<tNeg52p2>>

\* the kinds of the errors about an option or the number of its values
FlagErrorKinds ==
    {"Invalid option", "Option requires argument(s)", "'='-syntax can not be used"}

\* C19: the iteration on the first "--" sets afterPosDelim and touches no
\* variable of a flag or positional; from then on afterPosDelim stays set,
\* every argument other than "--" is handed to positional matching
\* whatever its first characters, no variable of a flag changes and no
\* 'Invalid option' or arity error of a flag is reported.
C19_AfterDelimiter ==
    [][ /\ (pc = "loop" /\ ~halted /\ argIdx < Len(argv) /\ ~afterPosDelim
              /\ argv[argIdx + 1] = tDelim)
           => (afterPosDelim' /\ flagVal' = flagVal /\ posVal' = posVal
                 /\ positionalIdx' = positionalIdx /\ io' = io)
        /\ afterPosDelim =>
             /\ afterPosDelim'
             /\ flagVal' = flagVal
             /\ \A e \in (Len(io) + 1)..Len(io') :
                   io'[e].kind \notin FlagErrorKinds
             /\ (pc = "loop" /\ ~halted /\ argIdx < Len(argv)
                   /\ argv[argIdx + 1] # tDelim) => HandledAsPositional
      ]_vars

\* -- -f: the -f behind the delimiter is the value of the positional and
\* foo is not set
C19_Witness ==
    /\ Finished
    /\ argv = <<tDelim, tF>>
    /\ flagByShortOpt(flags_, "f") # 0
    /\ ~flagVal[flagByShortOpt(flags_, "f")].b
    /\ afterPosDelim
    /\ posVal[1] = <<tF>>
    /\ result = "value"

\* the positions of the delimiters in argv
DelimiterPositions == {i \in 1..Len(argv) : argv[i] = tDelim}

\* the position of the j-th delimiter of argv
RECURSIVE NthDelimiter(_)
NthDelimiter(j) ==
    LET later == IF j = 1 THEN DelimiterPositions
                 ELSE {i \in DelimiterPositions : i > NthDelimiter(j - 1)}
    IN  CHOOSE i \in later : \A k \in later : i <= k

\* the arguments between the j-th delimiter and the next one, or the end
\* of argv
Group(j) ==
    LET from == NthDelimiter(j)
        to   == IF j < Cardinality(DelimiterPositions)
                THEN NthDelimiter(j + 1) - 1
                ELSE Len(argv)
    IN  SubSeq(argv, from + 1, to)

\* argv is "--" g1 "--" g2 "--" g3 for PosDelimArgs
ThreeGroups ==
    /\ argsType = PosDelimArgs
    /\ Len(argv) >= 1 /\ argv[1] = tDelim
    /\ Cardinality(DelimiterPositions) = 3

\* C20: the iteration on the first "--" does not move the positional
\* cursor, the iteration on every later "--" moves it by one, and neither
\* assigns a value; so with three optional vectors as positionals the
\* stream "--" g1 "--" g2 "--" g3 puts each group into its positional.
C20_RepeatedDelimiters ==
    [][ /\ (pc = "loop" /\ ~halted /\ argIdx < Len(argv)
              /\ argv[argIdx + 1] = tDelim)
           => /\ positionalIdx' = IF afterPosDelim THEN positionalIdx + 1
                                  ELSE positionalIdx
              /\ posVal' = posVal
              /\ size_' = size_
              /\ flagVal' = flagVal
        /\ (pc' \in {"returned", "exited"} /\ ThreeGroups)
           => /\ result' = "value"
              /\ posVal' = <<Group(1), Group(2), Group(3)>>
      ]_vars

\* the values a descriptor was given so far: the values stored in the
\* variables of the string-typed flags and positionals, and the values
\* parseArg rejected
ValuesPassed ==
    UNION {{flagVal[f].v[i] : i \in 1..Len(flagVal[f].v)} :
              f \in {g \in 1..Len(flags_) : flags_[g].type = "string"}}
    \cup UNION {{posVal[p][i] : i \in 1..Len(posVal[p])} :
                   p \in {q \in 1..Len(positionals_) :
                              positionals_[q].type = "string"}}
    \cup {io[e].arg : e \in {k \in 1..Len(io) :
                                io[k].kind \in {"Invalid value",
                                                "Invalid value, possible values"}}}

\* C21: in no parse is the argument "--" passed as a value to a flag or to
\* a positional: it is neither stored in a bound variable nor rejected by
\* parseArg as a value, also not behind a flag that takes values.
C21_DelimiterNeverAValue ==
    pc # "init" => tDelim \notin ValuesPassed

\* the flag that the step at hand gives values to and the raw values, in
\* the order in which parseArg gets them; f is 0 if the step gives no flag
\* a value: -fREST gives REST, --name=V gives V to a flag of one argument,
\* and a flag given bare gets the following arguments if there are as many
\* as it takes
FlagValuesAtHand ==
    LET arg == argv[argIdx + 1]
    IN  IF AtGlued
        THEN [f |-> flagByShortOpt(flags_, arg[2]),
              strs |-> <<SubSeq(arg, 3, Len(arg))>>]
        ELSE IF AtLongToken /\ PositionsOf(arg, "=") # {}
        THEN LET eq   == FirstPositionOf(arg, "=")
                 name == SubSeq(arg, 3, eq - 1)
             IN  IF Named(name) # {} /\ \A f \in Named(name) : flags_[f].num = 1
                 THEN [f |-> CHOOSE f \in Named(name) : TRUE,
                       strs |-> <<SubSeq(arg, eq + 1, Len(arg))>>]
                 ELSE [f |-> 0, strs |-> <<>>]
        ELSE IF /\ AtLongToken \/ AtShortToken
                /\ FlagGivenBare # 0
                /\ flags_[FlagGivenBare].num >= 1
                /\ Len(ValueRun(argIdx + 2, flags_[FlagGivenBare].num))
                      = flags_[FlagGivenBare].num
        THEN [f |-> FlagGivenBare,
              strs |-> ValueRun(argIdx + 2, flags_[FlagGivenBare].num)]
        ELSE [f |-> 0, strs |-> <<>>]

\* the argument at hand goes to positional matching and a positional is
\* left for it
PositionalValueAtHand ==
    /\ pc = "loop" /\ ~halted /\ argIdx < Len(argv)
    /\ argv[argIdx + 1] # tDelim
    /\ afterPosDelim \/ ~LooksLikeFlag(argv[argIdx + 1])
    /\ positionalIdx < Len(positionals_)

\* the strings of a choice list
ChoiceSet(choiceList) == {choiceList[i] : i \in 1..Len(choiceList)}

\* the position of the first of the raw values strs that a descriptor of
\* that type and with these choices rejects, 0 if it takes them all
FirstRejected(type, choiceList, strs) ==
    LET bad == {i \in 1..Len(strs) :
                   \/ Len(choiceList) > 0 /\ strs[i] \notin ChoiceSet(choiceList)
                   \/ ~Accepted(type, strs[i])}
    IN  IF bad = {} THEN 0 ELSE CHOOSE i \in bad : \A j \in bad : i <= j

\* the step fails with the error about the value str that lists the
\* choices in the order of their declaration
FailsWithChoices(str, choiceList) ==
    /\ FailsWithKind("Invalid value, possible values")
    /\ io'[Len(io) + 1].arg = str
    /\ io'[Len(io) + 1].choices = choiceList

\* the step writes no error about choices
NoChoiceError ==
    \A e \in (Len(io) + 1)..Len(io') :
        io'[e].kind # "Invalid value, possible values"

\* what the step at hand does with the raw values of a flag or positional
\* that has choices, but for what becomes of the bound variable when a
\* value is rejected: a value passes exactly when it equals one of the
\* choices, the first value that does not makes parse fail with the error
\* that lists the choices, and choices on flags without arguments have no
\* effect
ChoiceStep ==
    /\ (FlagValuesAtHand.f # 0 /\ Len(flags_[FlagValuesAtHand.f].choices) > 0)
       => LET f    == FlagValuesAtHand.f
              strs == FlagValuesAtHand.strs
              i    == FirstRejected(flags_[f].type, flags_[f].choices, strs)
          IN  IF i # 0 /\ strs[i] \notin ChoiceSet(flags_[f].choices)
              THEN FailsWithChoices(strs[i], flags_[f].choices)
              ELSE /\ NoChoiceError
                   /\ i = 0 => flagVal'[f] = AfterOccurrence(flags_[f], flagVal[f], strs)
    /\ (PositionalValueAtHand /\ Len(positionals_[positionalIdx + 1].choices) > 0)
       => LET p   == positionalIdx + 1
              str == argv[argIdx + 1]
          IN  IF str \notin ChoiceSet(positionals_[p].choices)
              THEN /\ FailsWithChoices(str, positionals_[p].choices)
                   /\ io'[Len(io) + 1].name = positionals_[p].name
              ELSE /\ NoChoiceError
                   /\ Accepted(positionals_[p].type, str)
                      => Len(posVal'[p]) >= 1
                         /\ posVal'[p][Len(posVal'[p])]
                               = Converted(positionals_[p].type, str)
    /\ (/\ AtLongToken \/ AtShortToken
        /\ \/ FlagValuesAtHand.f = 0
           \/ Len(flags_[FlagValuesAtHand.f].choices) = 0)
       => /\ NoChoiceError
          /\ \A f \in 1..Len(flags_) :
                (/\ flags_[f].num = 0 /\ Len(flags_[f].choices) > 0
                 /\ pc' = "loop"
                 /\ \/ argv[argIdx + 1] = <<"-", "-">> \o flags_[f].name
                    \/ /\ argv[argIdx + 1][2] # "-"
                       /\ \E k \in 2..Len(argv[argIdx + 1]) :
                             argv[argIdx + 1][k] = flags_[f].shortOpt)
                => flagVal'[f] # flagVal[f] \/ flagVal[f].b

\* the variable of the flag when parseArg rejects the i-th of the raw
\* values strs of an occurrence: the values before the i-th are stored,
\* behind the reset of the occurrence
BeforeRejected(flag, old, strs, i) ==
    IF i = 1 /\ ~(flag.kind = "vector" /\ ~flag.collect)
    THEN old
    ELSE AfterOccurrence(flag, old, SubSeq(strs, 1, i - 1))

FailsWithConversion(str, type) ==
    /\ FailsWithKind("Invalid value")
    /\ io'[Len(io) + 1].arg = str
    /\ io'[Len(io) + 1].typeName = IF type = "int64_t" THEN "integer" ELSE ""
    /\ io'[Len(io) + 1].choices = <<>>

\* the step writes no error of a conversion
NoConversionError ==
    \A e \in (Len(io) + 1)..Len(io') : io'[e].kind # "Invalid value"

\* what a step does with the first raw value str that a descriptor of that
\* type and with these choices rejects
RejectedInTwoPhases(str, type, choiceList) ==
    IF Len(choiceList) > 0 /\ str \notin ChoiceSet(choiceList)
    THEN /\ FailsWithChoices(str, choiceList)
         /\ NoConversionError
    ELSE /\ FailsWithConversion(str, type)
         /\ NoChoiceError

\* C23: parseArg checks the choices first and converts the value only if
\* the check passed or there are no choices; a conversion that rejects the
\* value makes parse fail with 'Invalid value', with the name of the type if
\* it has one, and no value is returned; a value that is outside the
\* choices and that the type does not accept either is reported as outside
\* the choices, never as a failed conversion.
C23_ChoicesBeforeConversion ==
    [][ /\ FlagValuesAtHand.f # 0
           => LET f    == FlagValuesAtHand.f
                  strs == FlagValuesAtHand.strs
                  i    == FirstRejected(flags_[f].type, flags_[f].choices, strs)
              IN  IF i # 0
                  THEN RejectedInTwoPhases(strs[i], flags_[f].type, flags_[f].choices)
                  ELSE NoChoiceError /\ NoConversionError
        /\ PositionalValueAtHand
           => LET pos == positionals_[positionalIdx + 1]
                  str == argv[argIdx + 1]
              IN  IF FirstRejected(pos.type, pos.choices, <<str>>) # 0
                  THEN /\ RejectedInTwoPhases(str, pos.type, pos.choices)
                       /\ posVal' = posVal
                  ELSE /\ NoChoiceError /\ NoConversionError
                       /\ posVal'[positionalIdx + 1]
                             # posVal[positionalIdx + 1]
                          \/ posVal[positionalIdx + 1]
                                = <<Converted(pos.type, str)>>
      ]_vars

\* --level x with the choices 1 and x: x passed the choice check and the
\* conversion to an integer rejected it
C23_Witness ==
    /\ Finished
    /\ argsType = IntChoiceArgs
    /\ argv = <<tLevel, tX>>
    /\ result = "nullopt"
    /\ io[1].kind = "Invalid value"
    /\ io[1].arg = tX
    /\ io[1].typeName = "integer"
    /\ flagVal[flagByName(flags_, <<"l", "e", "v", "e", "l">>)].v = <<>>

\* how often the argument tok, taken as a flag, gives the flag f: once by
\* name in the long form (the name ends at the first '='), once as the
\* short option of -fVALUE, and once per occurrence of its short option in
\* a stack
OccurrencesIn(tok, f) ==
    IF tok[2] = "-"
    THEN LET name == IF PositionsOf(tok, "=") = {} THEN SubSeq(tok, 3, Len(tok))
                     ELSE SubSeq(tok, 3, FirstPositionOf(tok, "=") - 1)
         IN  IF flags_[f].name = name THEN 1 ELSE 0
    ELSE LET first == flagByShortOpt(flags_, tok[2])
         IN  IF first # 0 /\ flags_[first].num = 1 /\ Len(tok) > 2
             THEN IF first = f THEN 1 ELSE 0
             ELSE Cardinality({k \in 2..Len(tok) : tok[k] = flags_[f].shortOpt})

\* how many of the following arguments the argument tok, taken as a flag in
\* a parse that does not fail, takes as values: none if it brings its value
\* (--name=V, -fVALUE), else as many as the flag of the name or of the last
\* short option takes
ValuesBehind(tok) ==
    IF tok[2] = "-"
    THEN IF PositionsOf(tok, "=") # {} \/ Named(SubSeq(tok, 3, Len(tok))) = {}
         THEN 0
         ELSE flags_[CHOOSE f \in Named(SubSeq(tok, 3, Len(tok))) : TRUE].num
    ELSE LET first == flagByShortOpt(flags_, tok[2])
             last  == flagByShortOpt(flags_, tok[Len(tok)])
         IN  IF first # 0 /\ flags_[first].num = 1 /\ Len(tok) > 2 THEN 0
             ELSE IF last = 0 THEN 0
             ELSE flags_[last].num

\* the raw value that the argument at the position i of argv, taken as a
\* flag of one argument, gives its flag
ValueGivenAt(i) ==
    LET tok == argv[i]
    IN  IF tok[2] = "-" /\ PositionsOf(tok, "=") # {}
        THEN SubSeq(tok, FirstPositionOf(tok, "=") + 1, Len(tok))
        ELSE IF tok[2] # "-" /\ Len(tok) > 2
                /\ flags_[flagByShortOpt(flags_, tok[2])].num = 1
        THEN SubSeq(tok, 3, Len(tok))
        ELSE argv[i + 1]

\* the positions in argv, from i on, of the arguments that give the flag f
\* in a parse that does not fail: the arguments before the first "--" that
\* look like a flag and are not the value of a flag before them
RECURSIVE OccurrencePositions(_, _)
OccurrencePositions(i, f) ==
    IF i > Len(argv) \/ argv[i] = tDelim
    THEN {}
    ELSE IF LooksLikeFlag(argv[i])
    THEN (IF OccurrencesIn(argv[i], f) > 0 THEN {i} ELSE {})
         \cup OccurrencePositions(i + 1 + ValuesBehind(argv[i]), f)
    ELSE OccurrencePositions(i + 1, f)

\* how often argv gives the flag f
RECURSIVE SumOccurrences(_, _)
SumOccurrences(S, f) ==
    IF S = {} THEN 0
    ELSE LET i == CHOOSE j \in S : TRUE
         IN  OccurrencesIn(argv[i], f) + SumOccurrences(S \ {i}, f)

TotalOccurrences(f) == SumOccurrences(OccurrencePositions(1, f), f)

\* the position of the last argument that gives the flag f
LastOccurrence(f) ==
    CHOOSE i \in OccurrencePositions(1, f) :
        \A j \in OccurrencePositions(1, f) : j <= i

\* parse returned the Args object and nothing halted it
ReturnedNotHalted == Finished /\ result = "value" /\ ~halted

\* C24: after a parse that returns a value without halting, the variable
\* of a bool flag is true if the flag occurred, in the long form, the short
\* form or a stack, and else what it was initialised with; the variable of
\* a counting flag is what it was initialised with plus the number of its
\* occurrences; the variable of an optional flag that occurred holds the
\* value of its last occurrence.
C24_OccurrenceSemantics ==
    ReturnedNotHalted =>
        \A f \in 1..Len(flags_) :
            LET occ == TotalOccurrences(f)
            IN  /\ flags_[f].kind = "bool"
                   => flagVal[f].b = (IF occ > 0 THEN TRUE ELSE flags_[f].init.b)
                /\ flags_[f].kind = "count"
                   => flagVal[f].n = flags_[f].init.n + occ
                /\ flags_[f].kind = "optional"
                   => flagVal[f].v
                         = IF occ > 0
                           THEN <<Converted(flags_[f].type,
                                            ValueGivenAt(LastOccurrence(f)))>>
                           ELSE flags_[f].init.v

\* -vf --opt=a -ofv with verbose initialised with 2: foo is set, verbose
\* is 3 and opt holds fv, the value of its second occurrence
C24_Witness ==
    /\ ReturnedNotHalted
    /\ argsType = OccurArgs(FALSE, 2)
    /\ argv = <<tVF, tOptEqA, tOFV>>
    /\ flagVal[flagByName(flags_, <<"f", "o", "o">>)].b
    /\ flagVal[flagByName(flags_, <<"v", "e", "r", "b", "o", "s", "e">>)].n = 3
    /\ flagVal[flagByName(flags_, <<"o", "p", "t">>)].v = <<<<"f", "v">>>>

\* the names of flags_ and positionals_ are pairwise distinct
NamesDistinct ==
    LET names == [i \in 1..Len(flags_) |-> flags_[i].name]
                 \o [j \in 1..Len(positionals_) |-> positionals_[j].name]
    IN  \A i, j \in 1..Len(names) : i # j => names[i] # names[j]

\* the short options of flags_ are pairwise distinct
ShortOptsDistinct ==
    \A i, j \in 1..Len(flags_) :
        (i # j /\ flags_[i].shortOpt # NoShortOpt)
        => flags_[i].shortOpt # flags_[j].shortOpt

\* what parse and Args::args() declare: the built-in flags help, with the
\* short option h, if addHelp_ is set and version if a version is set, the
\* flags of the Args struct and its positionals
DeclaredNames ==
    (IF parser.addHelp_ THEN <<tHelp>> ELSE <<>>)
    \o (IF parser.version_ # <<>> THEN <<tVersion>> ELSE <<>>)
    \o [i \in 1..Len(argsType.flags) |-> <<"-", "-">> \o argsType.flags[i].name]
    \o [j \in 1..Len(argsType.positionals) |->
           <<"-", "-">> \o argsType.positionals[j].name]

DeclaredShortOpts ==
    (IF parser.addHelp_ THEN <<"h">> ELSE <<>>)
    \o SelectSeq([i \in 1..Len(argsType.flags) |-> argsType.flags[i].shortOpt],
                 LAMBDA ch : ch # NoShortOpt)

\* a name or a short option is declared twice
DeclaredTwice ==
    \/ \E i, j \in 1..Len(DeclaredNames) :
          i # j /\ DeclaredNames[i] = DeclaredNames[j]
    \/ \E i, j \in 1..Len(DeclaredShortOpts) :
          i # j /\ DeclaredShortOpts[i] = DeclaredShortOpts[j]

\* the names and short options of every Argument Set that has reached the
\* loop are distinct, and a declaration of a name or short option that is
\* in use ends in a failed assertion and never in a registration
UniqueOrAborted ==
    /\ pc \in {"loop", "returned", "exited"}
       => NamesDistinct /\ ShortOptsDistinct /\ ~DeclaredTwice
    /\ (pc # "init" /\ DeclaredTwice) => pc = "aborted"
    /\ pc = "aborted" => DeclaredTwice

RECURSIVE LoopEnd(_, _)
LoopEnd(c, m) == IF InLoop(c, m) THEN LoopEnd(c, Step(c, m)) ELSE m

\* parse will take every argument that is left: no error and no halt ends
\* the loop before the end of argv
LoopCompletes ==
    LET e == LoopEnd(Ctx, Cur) IN e.pc = "loop" /\ ~e.halted

\* how many of the arguments that are left the loop will hand to
\* positional matching, from the state m on
RECURSIVE PositionalStepsAhead(_, _)
PositionalStepsAhead(c, m) ==
    IF ~InLoop(c, m) THEN 0
    ELSE (IF AtPositionalForm(c, m) THEN 1 ELSE 0)
         + PositionalStepsAhead(c, Step(c, m))

\* C26: at the start of every iteration positionalsLeft is the number of
\* arguments not yet processed that will be handed to positional matching;
\* the values of flags and the "--" arguments are not counted.  (Stated
\* for the parses that take every argument, in which what will be handed
\* to positional matching is the same as what has the form for it.)
C26_PositionalsLeftBookkeeping ==
    (pc = "loop" /\ ~halted /\ argIdx < Len(argv) /\ LoopCompletes)
    => positionalsLeft = PositionalStepsAhead(Ctx, Cur)

\* the required positionals at or behind the cursor
RequiredFromCursor ==
    {p \in (positionalIdx + 1)..Len(positionals_) : ~positionals_[p].optional}

\* C27: positionalsRequired is always the number of the required
\* positionals at or behind the cursor; it changes only by one, downwards,
\* when the cursor moves past a required positional, and never goes below
\* zero.
C27_PositionalsRequiredBookkeeping ==
    [][ /\ pc' = "loop"
           => /\ positionalsRequired' = Cardinality(RequiredFromCursor')
              /\ positionalsRequired' >= 0
        /\ (pc = "loop" /\ positionalsRequired' # positionalsRequired)
           => /\ positionalsRequired' = positionalsRequired - 1
              /\ positionalIdx' = positionalIdx + 1
              /\ ~positionals_[positionalIdx + 1].optional
      ]_vars

\* C28: for a stream T without "--" and without an argument of the form of
\* a flag, and for every set of positionals, the parse of "--" followed by
\* T has the outcome and the final values of the positionals of the parse
\* of T.
C28_LeadingDelimiterNeutral ==
    (/\ Finished
     /\ Len(argv) >= 1 /\ argv[1] = tDelim
     /\ \A i \in 2..Len(argv) : argv[i] # tDelim /\ ~LooksLikeFlag(argv[i]))
    => LET alone == Parse(parser, argsType, Tail(argv))
       IN  /\ result = alone.result
           /\ posVal = alone.posVal
           /\ ErrorMessages
                 = SelectSeq(alone.io, LAMBDA e : e.sink = "err" /\ e.kind # "Usage: ")

\* a flag or positional marked as halting, the built-in help and version
\* among them, was matched: each of them sets halted and remaining()
\* starts behind its argument or its values; the halt for an argument no
\* positional is left for makes that argument the first of remaining()
HaltingDescriptorMatched ==
    \/ \E f \in 1..Len(flags_) : flags_[f].halt /\ flagVal[f] # flags_[f].init
    \/ \E p \in 1..Len(positionals_) : positionals_[p].halt /\ size_[p] > 0

\* C29: whenever parse returns a value and no flag or positional marked as
\* halting (help and version included) was matched, every required
\* positional has received at least one argument; with and without
\* errorOnExtraArgs and with any number of "--".
C29_RequiredPositionalsSatisfied ==
    (Finished /\ result = "value" /\ ~HaltingDescriptorMatched)
    => \A p \in 1..Len(positionals_) :
          ~positionals_[p].optional => size_[p] >= 1 /\ posVal[p] # InitPosVal(positionals_[p])

\* C30: every parse of a finite argv ends: it returns or exit_ ends the
\* process.  From one iteration of the loop to the next the index of the
\* argument at hand grows, and it never exceeds the length of argv, so
\* every argument is processed at most once; the loop is left at the end
\* of argv, by a halt or by an error, and what comes after the loop is one
\* step that ends parse.
C30_TerminationAndProgress ==
    /\ [][ /\ (pc = "loop" /\ ~halted /\ argIdx < Len(argv))
              => /\ argIdx' <= Len(argv)
                 /\ argIdx' >= argIdx
                 /\ (pc' = "loop" /\ ~halted') => argIdx' > argIdx
           /\ (pc = "loop" /\ (halted \/ argIdx >= Len(argv)))
              => pc' \in {"returned", "exited"}
           /\ pc \in {"returned", "exited"} => pc' = pc
         ]_vars
    /\ <>(pc \in {"returned", "exited"})

\* --opt a: parse has ended after one iteration, which took the flag and
\* its value, and the test for missing positionals
C30_Witness ==
    /\ Finished
    /\ argsType = TestArgs
    /\ argv = <<tOpt, tA>>
    /\ argIdx = Len(argv)
    /\ result = "nullopt"
    /\ flagVal[flagByName(flags_, <<"o", "p", "t">>)].v = <<tA>>
    /\ io[1].kind = "Missing argument"

====
